---- MODULE Spec2Model ----
(***************************************************************************)
(* Model of the multi-tenant Entra ID bearer-token verifier and its        *)
(* self-refreshing JWKS cache (backend/src/entra_id.rs).                    *)
(*                                                                         *)
(* Time is a discrete clock `now` (Instant::now()).  Every await point of  *)
(* the code is a separate step of the calling task; code between two await *)
(* points is one atomic step.                                               *)
(***************************************************************************)
EXTENDS Integers, Sequences, FiniteSets, TLC

(* ------------------------------ bounds -------------------------------- *)

\* the clock stops advancing at MaxTime
MaxTime == 2

\* the specification of fetch_jwks alone tries max_attempts of 1..MaxAttemptsTried
MaxAttemptsTried == 4

\* the specification of the background task alone runs the clock up to
\* MaxRoundsTime, past the start of its second round
MaxRoundsTime == 5

(* --------------------------- configuration ---------------------------- *)

\* EntraIdTokenVerifier.refresh_jwks_interval, in clock units
RefreshJwksInterval == 4
\* EntraIdTokenVerifier.refresh_tenant_jwks_interval (cooldown), in clock units
RefreshTenantJwksInterval == 2
\* JwksCache.ttl, in clock units
Ttl == 2
\* RetryConfig.max_attempts
MaxAttempts == 2

(* ------------------------------ universe ------------------------------ *)

\* request tasks calling verify_token (one request each, numbered in the
\* order of arrival), and the spawned background task
Callers == {"V1", "V2"}
Earlier(p) == IF p = "V2" THEN {"V1"} ELSE {}
BG == "BG"
Procs == Callers \cup {BG}
NoProc == "-"

\* tenants of the registry, and a tenant id that is not registered
Tenants == {"T1", "T2"}
UnknownTenant == "TX"
\* iteration order of registry.keys() (arbitrary but fixed for one HashMap)
TenantOrder == <<"T1", "T2">>

Kids == {"k1", "k2"}

\* Option<T>: None is <<>>, Some(x) is <<x>>
None == <<>>
Some(x) == <<x>>
IsSome(o) == o # <<>>
Unwrap(o) == o[1]

EmptyMap == [x \in {} |-> 0]

\* the url crate's view of an iss string: it parses or not, it can be a base
\* (has path segments) or not, and its path segments
IssUrl(segs) == [kind |-> "url", segs |-> segs]
IssCannotBeABase == [kind |-> "opaque", segs |-> <<>>]
IssUnparsable == [kind |-> "invalid", segs |-> <<>>]
\* the payload JSON has no iss member
IssAbsent == [kind |-> "absent", segs |-> <<>>]
IssuerOf(t) == IssUrl(<<t, "v2.0">>)
AudienceOf(t) == <<"api", t>>

\* Tenant registry: tenant id -> Tenant
TenantRegistry ==
    [t \in Tenants |-> [id |-> t, uri |-> <<"jwks", t>>,
                        issuer |-> IssuerOf(t), audience |-> AudienceOf(t)]]

\* Jwk as served by the JWKS endpoint: kid and RSA material
Jwk(k, n) == [kid |-> k, n |-> n]
Materials == {"n1", "n2"}
Jwks == {Jwk(k, n) : k \in Kids, n \in Materials}

\* JwksResponse.keys: a Vec<Jwk>.  What the endpoints serve at construction,
\* and what the endpoint of each tenant can serve later: T1 rotates its keys
\* (no key, the new key alone, both keys, the old kid with other material),
\* T2 keeps serving k1
InitialResponses == {<<Jwk("k1", "n1")>>}
JwksResponses(t) ==
    IF t = "T1" THEN {<<>>, <<Jwk("k2", "n1")>>, <<Jwk("k1", "n1"), Jwk("k2", "n1")>>,
                      <<Jwk("k1", "n2")>>}
    ELSE InitialResponses

(* ------------------------------- tokens -------------------------------- *)

\* The two crates of the repository differ in the order of the header checks
\* of verify_token.
Crates == {"backend", "entra-id-backend"}

\* alg values that deserialize into jsonwebtoken::Algorithm (a subset of the
\* enum is enough); any other string makes decode_header fail
KnownAlgorithms == {"RS256", "HS256", "RS384"}

\* A bearer token as the verifier sees it: the number of '.'-separated parts,
\* whether the header segment is base64url JSON, its alg and kid, whether the
\* payload segment is base64url / JSON with an iss string, its tid and iss, the
\* key that signed it, and the aud and exp claims.
Token(parts, hdr, alg, kid, payload, tid, iss, signer, aud, exp) ==
    [parts |-> parts, hdr |-> hdr, alg |-> alg, kid |-> kid, payload |-> payload,
     tid |-> tid, iss |-> iss, signer |-> signer, aud |-> aud, exp |-> exp]

NoToken == Token(0, "bad", "-", None, "b64", None, IssUnparsable, "-", "-", 0)

\* a token a tenant's identity provider issues: signed with key k of tenant t
GoodToken(t, k) ==
    Token(3, "ok", "RS256", Some(k), "ok", Some(t), IssuerOf(t),
          Jwk(k, "n1"), AudienceOf(t), MaxTime + 1)

\* tokens of the request tasks of the concurrent specification
RequestTokens == {GoodToken("T1", "k1"), GoodToken("T1", "k2")}

\* tokens of the single-request specification: every combination of the
\* untrusted inputs verify_token reads before the key lookup
IssValues ==
    {IssuerOf("T1"), IssUrl(<<"common", "v2.0">>), IssUrl(<<"organizations", "v2.0">>),
     IssuerOf(UnknownTenant), IssCannotBeABase, IssUnparsable, IssAbsent}
AllTokens ==
    {Token(parts, hdr, alg, kid, payload, tid, iss, Jwk("k2", "n1"), AudienceOf("T1"),
           MaxTime + 1) :
        parts \in {2, 3}, hdr \in {"ok", "bad"}, alg \in {"RS256", "HS256", "none"},
        kid \in {None, Some("k1"), Some("k2")}, payload \in {"ok", "b64", "json"},
        tid \in {None, Some("T1"), Some(UnknownTenant)}, iss \in IssValues}

\* tokens of the single-request specification that pass the header and
\* payload steps: every combination of what the signed verification reads.
\* The signer is the key pair whose private half signed the token; "forged"
\* is a key pair no tenant publishes.
SignedTokens ==
    {Token(3, "ok", "RS256", Some(kid), "ok", tid, iss, signer, aud, exp) :
        kid \in Kids, tid \in {None, Some("T1"), Some("T2")},
        iss \in {IssuerOf("T1"), IssuerOf("T2")},
        signer \in {Jwk("k1", "n1"), Jwk("k2", "n1"), Jwk("k1", "forged")},
        aud \in {AudienceOf("T1"), AudienceOf("OTHER")}, exp \in {0, MaxTime + 1}}

\* number of '.'-separated parts of a JWT
JWT_PARTS_COUNT == 3

\* jsonwebtoken::decode_header: Err unless the token has three parts, the
\* first is base64url JSON and alg names an Algorithm
DecodeHeader(tok) ==
    IF tok.parts # 3 \/ tok.hdr # "ok" \/ tok.alg \notin KnownAlgorithms
    THEN [ok |-> FALSE, alg |-> "-", kid |-> None]
    ELSE [ok |-> TRUE, alg |-> tok.alg, kid |-> tok.kid]

\* extract_payload: the unverified claims {iss, tid}, or the error
ExtractPayload(tok) ==
    IF tok.parts # JWT_PARTS_COUNT THEN [err |-> "InvalidTokenFormat"]
    ELSE IF tok.payload = "b64" THEN [err |-> "TokenPayloadDecodeError"]
    ELSE IF tok.payload = "json" \/ tok.iss.kind = "absent"
         THEN [err |-> "TokenPayloadParseError"]
    ELSE [err |-> "ok", iss |-> tok.iss, tid |-> tok.tid]

\* variant: common and organizations are taken for tenant ids
ExtractIssuerFromIssAnyTenant(iss) ==
    IF iss.kind = "invalid" THEN [err |-> "TokenMissingIssuer"]
    ELSE IF iss.kind = "opaque" THEN [err |-> "InvalidIssuerFormat"]
    ELSE IF Len(iss.segs) = 0 THEN [err |-> "InvalidIssuerFormat"]
    ELSE [err |-> "ok", tenant_id |-> iss.segs[1]]

\* extract_issuer_from_iss: tenant id from the first path segment of iss
ExtractIssuerFromIss(iss) ==
    IF iss.kind = "invalid" THEN [err |-> "TokenMissingIssuer"]
    ELSE IF iss.kind = "opaque" THEN [err |-> "InvalidIssuerFormat"]
    ELSE IF Len(iss.segs) = 0 THEN [err |-> "InvalidIssuerFormat"]
    ELSE IF iss.segs[1] = "common" THEN [err |-> "DisallowedIssuerTenant", which |-> "common"]
    ELSE IF iss.segs[1] = "organizations"
         THEN [err |-> "DisallowedIssuerTenant", which |-> "organizations"]
    ELSE [err |-> "ok", tenant_id |-> iss.segs[1]]

\* specify_issuer: tid when present, else the tenant id taken from iss
SpecifyIssuer(claims) ==
    IF IsSome(claims.tid) THEN [err |-> "ok", tenant_id |-> Unwrap(claims.tid)]
    ELSE ExtractIssuerFromIss(claims.iss)

Routed(err, tenant_id, kid) == [err |-> err, tenant_id |-> tenant_id, kid |-> kid]
RouteError(err) == Routed(err, NoProc, NoProc)

\* variant: the tenant is not looked up in the registry
RoutePayloadAnyTenant(tok, kid) ==
    LET claims == ExtractPayload(tok) IN
    IF claims.err # "ok" THEN RouteError(claims.err)
    ELSE LET issuer == SpecifyIssuer(claims) IN
         IF issuer.err # "ok" THEN RouteError(issuer.err)
         ELSE Routed("ok", issuer.tenant_id, kid)

\* verify_token from the payload on: payload peek, issuer classification,
\* tenant lookup.  "ok" means the call goes on to get_decoding_key.
RoutePayload(tok, kid) ==
    LET claims == ExtractPayload(tok) IN
    IF claims.err # "ok" THEN RouteError(claims.err)
    ELSE LET issuer == SpecifyIssuer(claims) IN
         IF issuer.err # "ok" THEN RouteError(issuer.err)
         ELSE IF issuer.tenant_id \notin DOMAIN TenantRegistry
              THEN RouteError("TenantNotFound")
         ELSE Routed("ok", issuer.tenant_id, kid)

\* variant: the alg of the header is not checked
CheckHeaderBackendNoAlg(header) ==
    IF ~IsSome(header.kid) THEN "TokenHeaderMissingKid" ELSE "ok"

\* header checks of backend: alg first, then kid
CheckHeaderBackend(header) ==
    IF header.alg # "RS256" THEN "UnsupportedTokenAlgorithm"
    ELSE IF ~IsSome(header.kid) THEN "TokenHeaderMissingKid"
    ELSE "ok"

\* header checks of entra-id-backend: kid first, then alg
CheckHeaderEntraIdBackend(header) ==
    IF ~IsSome(header.kid) THEN "TokenHeaderMissingKid"
    ELSE IF header.alg # "RS256" THEN "UnsupportedTokenAlgorithm"
    ELSE "ok"

\* variant: the payload is peeked and routed before the header is checked
VerifyRoutePayloadFirst(crate, tok) ==
    LET routed == RoutePayload(tok, NoProc)
        header == DecodeHeader(tok)
    IN IF routed.err # "ok" THEN routed
       ELSE IF ~header.ok THEN RouteError("TokenHeaderDecodeError")
       ELSE LET checked == IF crate = "backend" THEN CheckHeaderBackend(header)
                           ELSE CheckHeaderEntraIdBackend(header) IN
            IF checked # "ok" THEN RouteError(checked)
            ELSE Routed("ok", routed.tenant_id, Unwrap(header.kid))

\* verify_token up to the call of get_decoding_key
VerifyRoute(crate, tok) ==
    LET header == DecodeHeader(tok) IN
    IF ~header.ok THEN RouteError("TokenHeaderDecodeError")
    ELSE LET checked == IF crate = "backend" THEN CheckHeaderBackend(header)
                        ELSE CheckHeaderEntraIdBackend(header) IN
         IF checked # "ok" THEN RouteError(checked)
         ELSE RoutePayload(tok, Unwrap(header.kid))

\* variant: the audience is not validated
DecodeClaimsAnyAudience(tok, jwk, tenant, at) ==
    IF tok.signer = jwk /\ tok.iss = tenant.issuer /\ tok.exp >= at
    THEN "Claims" ELSE "VerifyTokenError"

\* jsonwebtoken::decode with Validation(RS256), the tenant's audience and
\* issuer: the signature is checked with the cached key, then iss, aud, exp
DecodeClaims(tok, jwk, tenant, at) ==
    IF tok.signer = jwk /\ tok.iss = tenant.issuer /\ tok.aud = tenant.audience
       /\ tok.exp >= at
    THEN "Claims" ELSE "VerifyTokenError"


(* ------------------------------ the cache ------------------------------ *)

\* Instant::duration_since: saturates at zero when `earlier` is later
DurationSince(at, earlier) == IF at >= earlier THEN at - earlier ELSE 0

\* CachedJwk
CachedJwk(jwk, at) == [jwk |-> jwk, last_seen_at |-> at]

\* `new`: cached_jwk_map.insert for every fetched key (a later duplicate kid
\* replaces an earlier one)
RECURSIVE InsertKeys(_, _, _)
InsertKeys(map, keys, at) ==
    IF keys = <<>> THEN map
    ELSE LET key == Head(keys)
             rest == [k \in DOMAIN map \ {key.kid} |-> map[k]]
         IN InsertKeys((key.kid :> CachedJwk(key, at)) @@ rest, Tail(keys), at)

\* refresh_tenant_jwks_cache, the loop over fetched.keys:
\* entry(kid).and_modify(last_seen_at = now).or_insert(CachedJwk{key, now})
RECURSIVE MergeKeys(_, _, _)
MergeKeys(map, keys, at) ==
    IF keys = <<>> THEN map
    ELSE LET key == Head(keys) IN
         MergeKeys(IF key.kid \in DOMAIN map
                   THEN [map EXCEPT ![key.kid].last_seen_at = at]
                   ELSE (key.kid :> CachedJwk(key, at)) @@ map,
                   Tail(keys), at)

\* variant: only the first key of the response is merged
MergeIntoCacheFirstKey(table, tenant_id, keys, at) ==
    IF tenant_id \in DOMAIN table /\ keys # <<>>
    THEN [table EXCEPT ![tenant_id] = MergeKeys(@, <<Head(keys)>>, at)]
    ELSE table

\* variant: a fetched key is inserted over the entry of its kid
MergeIntoCacheInserting(table, tenant_id, keys, at) ==
    IF tenant_id \in DOMAIN table
    THEN [table EXCEPT ![tenant_id] = InsertKeys(@, keys, at)]
    ELSE table

\* variant: fetched keys refresh cached kids but a new kid is not inserted
MergeIntoCacheKnownOnly(table, tenant_id, keys, at) ==
    LET fetched == {keys[i].kid : i \in 1..Len(keys)} IN
    [table EXCEPT ![tenant_id] =
        [k \in DOMAIN @ |-> IF k \in fetched THEN [@[k] EXCEPT !.last_seen_at = at]
                                             ELSE @[k]]]

\* variant: the tenant's keys are replaced by the fetched set
MergeIntoCacheReplacing(table, tenant_id, keys, at) ==
    [table EXCEPT ![tenant_id] = InsertKeys(EmptyMap, keys, at)]

\* variant: the merge also drops the tenant's keys that are past the TTL
MergeIntoCacheEvicting(table, tenant_id, keys, at) ==
    IF tenant_id \in DOMAIN table
    THEN LET merged == MergeKeys(table[tenant_id], keys, at)
             keep == {k \in DOMAIN merged : DurationSince(at, merged[k].last_seen_at) < Ttl}
         IN [table EXCEPT ![tenant_id] = [k \in keep |-> merged[k]]]
    ELSE table

\* refresh_tenant_jwks_cache, the write to the cache table: a tenant without
\* an entry is logged and skipped
MergeIntoCache(table, tenant_id, keys, at) ==
    IF tenant_id \in DOMAIN table
    THEN [table EXCEPT ![tenant_id] = MergeKeys(@, keys, at)]
    ELSE table

\* HashMap::drain: yields every pair and leaves the map empty
Drained(map) == [yielded |-> map, left |-> EmptyMap]

\* max_by_key(last_seen_at) over a map
MaxByLastSeen(map) ==
    CHOOSE k \in DOMAIN map : \A j \in DOMAIN map : map[j].last_seen_at <= map[k].last_seen_at

\* cleanup_expired_jwks_cache, the body of the loop for one tenant
CleanupTenant(jwks, at) ==
    LET drained == Drained(jwks)
        original == drained.left
        keep == {k \in DOMAIN drained.yielded :
                    DurationSince(at, drained.yielded[k].last_seen_at) < Ttl}
        retained == [k \in keep |-> drained.yielded[k]]
    IN IF keep = {} /\ DOMAIN original # {}
       THEN LET kid == MaxByLastSeen(original) IN (kid :> original[kid]) @@ retained
       ELSE retained

\* variant: a tenant left without keys is dropped from the table
CleanupCacheDroppingEmpty(table, at) ==
    LET kept == {t \in DOMAIN table : DOMAIN CleanupTenant(table[t], at) # {}}
    IN [t \in kept |-> CleanupTenant(table[t], at)]

\* cleanup_expired_jwks_cache: every entry of the table (cache.iter_mut())
CleanupCache(table, at) == [t \in DOMAIN table |-> CleanupTenant(table[t], at)]

\* find_decoding_key: Some(jwk) when the tenant has the kid cached
FindDecodingKey(table, tenant_id, key_id) ==
    IF tenant_id \notin DOMAIN table THEN None
    ELSE IF key_id \notin DOMAIN table[tenant_id] THEN None
    ELSE Some(table[tenant_id][key_id].jwk)

\* variant: a lookup that finds the key records the time in its entry
CacheTouchedByFind(table, tenant_id, key_id, at) ==
    IF tenant_id \in DOMAIN table /\ key_id \in DOMAIN table[tenant_id]
    THEN [table EXCEPT ![tenant_id][key_id].last_seen_at = at]
    ELSE table

\* find_decoding_key takes the read guard of the cache table: the table
\* after the lookup
CacheAfterFind(table, tenant_id, key_id, at) == table

\* JwksCacheRefreshState::default()
DefaultRefreshState == [last_refreshed_at |-> None, refreshing |-> FALSE]

\* states.entry(tenant_id).or_insert(default)
EntryOrInsert(states, tenant_id) ==
    IF tenant_id \in DOMAIN states THEN states
    ELSE (tenant_id :> DefaultRefreshState) @@ states

\* variant: the flag is not set when the refresh is granted
GrantedStateFlagNotSet(state) == state

\* this task becomes the refresher: state.refreshing = true
GrantedState(state) == [state EXCEPT !.refreshing = TRUE]

\* variant: the cooldown is one unit shorter than the configured interval
InCooldownShort(state, at) ==
    /\ IsSome(state.last_refreshed_at)
    /\ DurationSince(at, Unwrap(state.last_refreshed_at)) < RefreshTenantJwksInterval - 1

\* the cooldown test of maybe_refresh_tenant_jwks_cache
InCooldown(state, at) ==
    /\ IsSome(state.last_refreshed_at)
    /\ DurationSince(at, Unwrap(state.last_refreshed_at)) < RefreshTenantJwksInterval

\* variant: 429 Too Many Requests is not taken for retryable
IsRetryableStatusServerOnly(status) == status >= 500 /\ status <= 599

\* is_retryable_error on the error of error_for_status (a status error is
\* neither a timeout nor a connect failure)
IsRetryableStatus(status) == (status >= 500 /\ status <= 599) \/ status = 429

\* what one HTTP attempt of fetch_jwks can meet: send() failing (timeout,
\* connect failure), a non-2xx status, a 2xx body that does not parse, or a
\* 2xx JwksResponse
SendErrors == {"timeout", "connect"}
ErrorStatuses == {400, 429, 500, 503}

\* the outcome of one HTTP request: send() failed (kind timeout or connect),
\* a non-2xx status, a 2xx body that does not parse, or a 2xx JwksResponse
Answer(kind, status) == [kind |-> kind, status |-> status]


(* --------------------------- construction ------------------------------ *)

\* MIN_BACKGROUND_JWKS_REFRESH_INTERVAL, in minutes
MIN_BACKGROUND_JWKS_REFRESH_INTERVAL == 30

\* the fields of EntraIdTokenVerifierBuilder, each an Option
Params == {"tenants", "jwk_cache_ttl", "refresh_jwks_interval",
           "refresh_tenant_jwks_interval", "entra_id_connection_timeout",
           "entra_id_timeout", "retry_config", "shutdown"}

\* the arguments the setters are called with: an empty or a non-empty tenant
\* list; a zero or a non-zero Duration (in minutes), for the background
\* interval also one just below the minimum; a RetryConfig; a token
SetterValues(param) ==
    CASE param = "tenants" -> {<<>>, TenantOrder}
      [] param = "refresh_jwks_interval" ->
            {0, MIN_BACKGROUND_JWKS_REFRESH_INTERVAL - 1, MIN_BACKGROUND_JWKS_REFRESH_INTERVAL}
      [] param \in {"retry_config", "shutdown"} -> {1}
      [] OTHER -> {0, 1}

\* variant: the background interval only has to be non-zero
RejectsZeroOnly(param, v) ==
    CASE param = "tenants" -> v = <<>>
      [] param \in {"retry_config", "shutdown"} -> FALSE
      [] OTHER -> v = 0

\* the setter returns Err(EntraIdError::Initialize)
Rejects(param, v) ==
    CASE param = "tenants" -> v = <<>>
      [] param = "refresh_jwks_interval" ->
            v = 0 \/ v < MIN_BACKGROUND_JWKS_REFRESH_INTERVAL
      [] param \in {"retry_config", "shutdown"} -> FALSE
      [] OTHER -> v = 0

\* a call made on the builder or by EntraIdTokenVerifier::new (history)
Call(name, arg) == [name |-> name, arg |-> arg]

\* EntraIdTokenVerifierBuilder::default(), and how far the construction is:
\* "setters" while the builder is being filled, "fetching" inside
\* EntraIdTokenVerifier::new, "built" once it returned Ok, "failed" once a
\* setter, build or new returned Err(error)
\* `call` is history: the last call made; `fetched` lists the tenants
\* whose initial fetch_jwks succeeded
NewBuilder ==
    [params |-> [param \in Params |-> None], step |-> "setters", error |-> None,
     call |-> Call("default", 0), fetched |-> <<>>]

\* the builder a running verifier came from
UsedBuilder ==
    [params |-> [param \in Params |->
                    Some(CASE param = "tenants" -> TenantOrder
                           [] param = "refresh_jwks_interval" ->
                                 MIN_BACKGROUND_JWKS_REFRESH_INTERVAL
                           [] OTHER -> 1)],
     step |-> "built", error |-> None,
     call |-> Call("fetch_jwks", [tenant |-> TenantOrder[Len(TenantOrder)], outcome |-> "ok"]),
     fetched |-> TenantOrder]

Failed(b, error, call) == [b EXCEPT !.step = "failed", !.error = Some(error), !.call = call]

\* tenant_registry: every tenant of the list under its id
NewRegistry(tenants) ==
    [t \in {tenants[i] : i \in 1..Len(tenants)} |-> TenantRegistry[t]]

\* what the initial fetch_jwks of a tenant returns
FetchOutcomes == {"ok", "JwksFetchError", "JwksResponseParseError"}

\* variant: the loop over the registry ends after its first tenant
FetchedFirst(reg, fetched) == fetched # <<>>

\* the loop of new over the registry has fetched for every tenant
FetchedAll(reg, fetched) == DOMAIN reg = {fetched[i] : i \in 1..Len(fetched)}

\* variant: HashMap::remove in place of get
RegistryRemove(reg, tenant_id) == [t \in DOMAIN reg \ {tenant_id} |-> reg[t]]

\* self.registry.get(tenant_id) borrows the map: the registry after it
RegistryGet(reg, tenant_id) == reg


(* ------------------------------- state --------------------------------- *)

(* ------------------------------ RetryConfig ---------------------------- *)

\* f64: a finite value in tenths, or NaN; every comparison with NaN is false
F64(tenths) == [nan |-> FALSE, v |-> tenths]
NaN == [nan |-> TRUE, v |-> 0]
Lt(a, b) == ~a.nan /\ ~b.nan /\ a.v < b.v
Gt(a, b) == Lt(b, a)

\* the arguments of RetryConfig::new; durations in clock units
RetryArgs(max_attempts, initial_wait, backoff_multiplier, jitter_min, jitter_max, max_wait) ==
    [max_attempts |-> max_attempts, initial_wait |-> initial_wait,
     backoff_multiplier |-> backoff_multiplier, jitter_min |-> jitter_min,
     jitter_max |-> jitter_max, max_wait |-> max_wait]

\* rand::distr::Uniform::new(low, high): the half-open range [low, high),
\* an error unless low < high
UniformNew(low, high) ==
    IF ~Lt(low, high) THEN [err |-> "EmptyRange"]
    ELSE [err |-> "ok", low |-> low, high |-> high]

\* RetryConfig::new: the four checks in the order of the code, then the
\* jitter distribution
RetryConfigNew(a) ==
    IF a.max_attempts = 0 THEN [err |-> "Initialize"]
    ELSE IF Lt(a.backoff_multiplier, F64(10)) THEN [err |-> "Initialize"]
    ELSE IF Lt(a.jitter_min, F64(0)) \/ Lt(a.jitter_max, F64(0))
               \/ Gt(a.jitter_min, a.jitter_max)
         THEN [err |-> "Initialize"]
    ELSE IF a.max_wait = 0 THEN [err |-> "Initialize"]
    ELSE LET jitter_dist == UniformNew(a.jitter_min, a.jitter_max) IN
         IF jitter_dist.err # "ok" THEN [err |-> "JwksProviderInitError"]
         ELSE [err |-> "ok",
               config |-> [max_attempts |-> a.max_attempts, initial_wait |-> a.initial_wait,
                           backoff_multiplier |-> a.backoff_multiplier,
                           max_wait |-> a.max_wait, jitter_dist |-> jitter_dist]]

\* the arguments tried: each check of RetryConfig::new passing and failing
F64Values == {NaN, F64(-5), F64(0), F64(8), F64(12)}
RetryArgsTried ==
    {RetryArgs(max_attempts, initial_wait, backoff_multiplier, jitter_min, jitter_max, max_wait) :
        max_attempts \in {0, 1, 2}, initial_wait \in {0, 1},
        backoff_multiplier \in {NaN, F64(5), F64(10), F64(20)},
        jitter_min \in F64Values, jitter_max \in F64Values, max_wait \in {0, 1}}

\* the call of RetryConfig::new: not made yet, or returned
RetryCall(args) == [step |-> "args", args |-> args, returned |-> [err |-> "-"]]
Returned(call) == [call EXCEPT !.step = "returned", !.returned = RetryConfigNew(call.args)]

\* the RetryConfig a running verifier was given
UsedRetryConfig == Returned(RetryCall(RetryArgs(MaxAttempts, 1, F64(20), F64(8), F64(12), 1)))

VARIABLES
    now,             \* Instant::now()
    crate,           \* which crate's verify_token runs
    cancelled,       \* the shutdown CancellationToken
    next_tick,       \* deadline of the background task's interval
    entries,         \* JwksCache.entries: tenant id -> (kid -> CachedJwk)
    refresh_states,  \* JwksCache.refresh_states: tenant id -> refresh state
    waiters,         \* per tenant, the Notified futures the Notify has not woken yet
    mutex,           \* holder of the refresh_states mutex, or NoProc
    pc,              \* where each task is
    tok,             \* the token of each request task's verify_token call
    result,          \* what each request task's verify_token call returned
    loc,             \* locals of the maybe_refresh_tenant_jwks_cache call of each task
    bg_idx,          \* position of the background task in registry.keys()
    fetch_calls,     \* history: fetch_jwks calls per tenant since construction
    refresh_failed,  \* history: refreshes per tenant that ended in an error
    first_ok,        \* history: per tenant, the Instant of its first successful refresh
    upstream,        \* what each tenant's JWKS endpoint serves at present
    max_attempts,    \* RetryConfig.max_attempts
    logging,         \* history switch: whether the answers of the endpoint are recorded
    builder,         \* the EntraIdTokenVerifierBuilder and the progress of build/new
    registry,        \* EntraIdTokenVerifier.registry
    retry_config,    \* the call of RetryConfig::new: its arguments and what it returned
    entries_lock     \* JwksCache.entries (RwLock): the task holding the write guard

vars == <<now, crate, cancelled, next_tick, entries, refresh_states, waiters, mutex,
          pc, tok, result, loc, bg_idx, fetch_calls, refresh_failed, first_ok,
          upstream, max_attempts, logging, builder, registry, retry_config,
          entries_lock>>

\* the answers of the running fetch_jwks call with one more answer
Logged(answers, answer) == IF logging THEN Append(answers, answer) ELSE answers

\* the state the verifier's own steps leave alone
outer == <<upstream, max_attempts, logging, builder, registry, retry_config>>
rest == <<outer, entries_lock>>

\* locals of maybe_refresh_tenant_jwks_cache / refresh_tenant_jwks_cache /
\* fetch_jwks: the tenant_id argument, `now`, `attempts`, `fetched`, whether
\* the refresh result is Ok, the Instant taken for the merge and then for
\* last_refreshed_at, and the value the last call returned
\* `answers` is history: what the endpoint answered to the HTTP requests of
\* the fetch_jwks call that is running or has just ended
\* `merged` is history too: the keys of the response the running refresh
\* has merged
NoLoc == [tenant_id |-> NoProc, now |-> 0, attempts |-> 0, fetched |-> <<>>,
          ok |-> FALSE, at |-> 0, ret |-> "-", answers |-> <<>>, merged |-> {}]

\* EntraIdTokenVerifier::new has run: every tenant's JWKS was fetched and
\* inserted, the refresh states are the default ones, the background task
\* is spawned with a fresh interval (whose first tick is due at once)
InitVerifier ==
    /\ now = 0
    /\ cancelled = FALSE
    /\ next_tick = 0
    /\ upstream \in [Tenants -> InitialResponses]
    /\ entries = [t \in Tenants |-> InsertKeys(EmptyMap, upstream[t], 0)]
    /\ refresh_states = [t \in Tenants |-> DefaultRefreshState]
    /\ waiters = [t \in Tenants |-> {}]
    /\ mutex = NoProc
    /\ tok = [p \in Callers |-> NoToken]
    /\ result = [p \in Callers |-> "-"]
    /\ loc = [p \in Procs |-> NoLoc]
    /\ bg_idx = 0
    /\ fetch_calls = [t \in Tenants |-> 0]
    /\ refresh_failed = [t \in Tenants |-> 0]
    /\ first_ok = [t \in Tenants |-> None]
    /\ builder = UsedBuilder
    /\ registry = NewRegistry(TenantOrder)
    /\ retry_config = UsedRetryConfig
    /\ entries_lock = NoProc

Init ==
    /\ InitVerifier
    /\ max_attempts = MaxAttempts
    /\ logging = FALSE
    /\ crate = "backend"
    /\ pc = [p \in Procs |-> IF p = BG THEN "select" ELSE "idle"]

(* --------------------- maybe_refresh_tenant_jwks_cache ----------------- *)

\* variant: after an error the background task leaves out the tenants
\* its round has not reached yet
ReturnSkippingRest(p, ret) ==
    IF p \in Callers
    THEN /\ pc' = [pc EXCEPT ![p] = "find2"]
         /\ loc' = [loc EXCEPT ![p] = [NoLoc EXCEPT !.tenant_id = loc[p].tenant_id,
                                                    !.ret = ret]]
         /\ UNCHANGED bg_idx
    ELSE IF bg_idx < Len(TenantOrder) /\ ret # "Err"
    THEN /\ pc' = [pc EXCEPT ![p] = "m_lock"]
         /\ loc' = [loc EXCEPT ![p] = [NoLoc EXCEPT !.tenant_id = TenantOrder[bg_idx + 1],
                                                    !.now = now, !.ret = ret]]
         /\ bg_idx' = bg_idx + 1
    ELSE /\ pc' = [pc EXCEPT ![p] = "c_lock"]
         /\ loc' = [loc EXCEPT ![p] = [NoLoc EXCEPT !.ret = ret]]
         /\ UNCHANGED bg_idx

\* variant: a task woken from its wait checks the refresh state again
\* instead of returning
ReturnRetryingAfterWait(p, ret) ==
    IF ret = "WaitedForRefresh"
    THEN /\ pc' = [pc EXCEPT ![p] = "m_lock"]
         /\ UNCHANGED <<loc, bg_idx>>
    ELSE IF p \in Callers
    THEN /\ pc' = [pc EXCEPT ![p] = "find2"]
         /\ loc' = [loc EXCEPT ![p] = [NoLoc EXCEPT !.tenant_id = loc[p].tenant_id,
                                                    !.ret = ret]]
         /\ UNCHANGED bg_idx
    ELSE IF bg_idx < Len(TenantOrder)
    THEN /\ pc' = [pc EXCEPT ![p] = "m_lock"]
         /\ loc' = [loc EXCEPT ![p] = [NoLoc EXCEPT !.tenant_id = TenantOrder[bg_idx + 1],
                                                    !.now = now, !.ret = ret]]
         /\ bg_idx' = bg_idx + 1
    ELSE /\ pc' = [pc EXCEPT ![p] = "c_lock"]
         /\ loc' = [loc EXCEPT ![p] = [NoLoc EXCEPT !.ret = ret]]
         /\ UNCHANGED bg_idx

\* variant: an error returned to the background task ends its loop
ReturnBreakingOnError(p, ret) ==
    IF p \in Callers
    THEN /\ pc' = [pc EXCEPT ![p] = "find2"]
         /\ loc' = [loc EXCEPT ![p] = [NoLoc EXCEPT !.tenant_id = loc[p].tenant_id,
                                                    !.ret = ret]]
         /\ UNCHANGED bg_idx
    ELSE IF ret = "Err"
    THEN /\ pc' = [pc EXCEPT ![p] = "exited"]
         /\ loc' = [loc EXCEPT ![p] = [NoLoc EXCEPT !.ret = ret]]
         /\ UNCHANGED bg_idx
    ELSE IF bg_idx < Len(TenantOrder)
    THEN /\ pc' = [pc EXCEPT ![p] = "m_lock"]
         /\ loc' = [loc EXCEPT ![p] = [NoLoc EXCEPT !.tenant_id = TenantOrder[bg_idx + 1],
                                                    !.now = now, !.ret = ret]]
         /\ bg_idx' = bg_idx + 1
    ELSE /\ pc' = [pc EXCEPT ![p] = "c_lock"]
         /\ loc' = [loc EXCEPT ![p] = [NoLoc EXCEPT !.ret = ret]]
         /\ UNCHANGED bg_idx

\* maybe_refresh_tenant_jwks_cache returns `ret` to its caller: get_decoding_key
\* goes on to its second lookup; the background task calls it for the next
\* tenant of the registry (taking `now` at once), or goes on to the cleanup
Return(p, ret) ==
    IF p \in Callers
    THEN /\ pc' = [pc EXCEPT ![p] = "find2"]
         /\ loc' = [loc EXCEPT ![p] = [NoLoc EXCEPT !.tenant_id = loc[p].tenant_id,
                                                    !.ret = ret]]
         /\ UNCHANGED bg_idx
    ELSE IF bg_idx < Len(TenantOrder)
    THEN /\ pc' = [pc EXCEPT ![p] = "m_lock"]
         /\ loc' = [loc EXCEPT ![p] = [NoLoc EXCEPT !.tenant_id = TenantOrder[bg_idx + 1],
                                                    !.now = now, !.ret = ret]]
         /\ bg_idx' = bg_idx + 1
    ELSE /\ pc' = [pc EXCEPT ![p] = "c_lock"]
         /\ loc' = [loc EXCEPT ![p] = [NoLoc EXCEPT !.ret = ret]]
         /\ UNCHANGED bg_idx

\* variant: the MutexGuard outlives the critical section
GuardKept(holder) == holder

\* the MutexGuard `states` is dropped: who holds the mutex afterwards
DropGuard(holder) == NoProc

\* self.cache.refresh_states.lock().await
MrLock(p) ==
    /\ pc[p] = "m_lock"
    /\ mutex = NoProc
    /\ mutex' = p
    /\ pc' = [pc EXCEPT ![p] = "m_check"]
    /\ UNCHANGED <<now, crate, cancelled, next_tick, entries, refresh_states, waiters,
                   tok, result, loc, bg_idx, fetch_calls, refresh_failed, first_ok, rest>>

\* the critical section that inspects the refresh state: cooldown, someone
\* else refreshing, or this task becomes the refresher.  The guard is
\* released at the end of each branch; nothing is awaited while it is held.
MrCheck(p) ==
    /\ pc[p] = "m_check"
    /\ mutex = p
    /\ LET t == loc[p].tenant_id
           states == EntryOrInsert(refresh_states, t)
       IN IF InCooldown(states[t], loc[p].now)
          THEN /\ refresh_states' = states
               /\ Return(p, "RecentlyRefreshed")
               /\ UNCHANGED fetch_calls
          ELSE IF states[t].refreshing
          THEN /\ refresh_states' = states
               /\ pc' = [pc EXCEPT ![p] = "m_subscribe"]
               /\ UNCHANGED <<loc, bg_idx, fetch_calls>>
          ELSE /\ refresh_states' = [states EXCEPT ![t] = GrantedState(@)]
               /\ IF t \in DOMAIN registry
                  THEN /\ pc' = [pc EXCEPT ![p] = "fetch"]
                       /\ fetch_calls' = [fetch_calls EXCEPT ![t] = @ + 1]
                  ELSE /\ pc' = [pc EXCEPT ![p] = "m_relock"]
                       /\ UNCHANGED fetch_calls
               /\ UNCHANGED <<loc, bg_idx>>
    /\ mutex' = DropGuard(p)
    /\ registry' = RegistryGet(registry, loc[p].tenant_id)
    /\ UNCHANGED <<now, crate, cancelled, next_tick, entries, waiters, tok, result,
                   refresh_failed, first_ok, upstream, max_attempts, logging, builder,
                   retry_config, entries_lock>>

\* notify.notified(): the Notified future exists from here on and receives
\* the notify_waiters() calls made after this point
MrSubscribe(p) ==
    /\ pc[p] = "m_subscribe"
    /\ waiters' = [waiters EXCEPT ![loc[p].tenant_id] = @ \cup {p}]
    /\ pc' = [pc EXCEPT ![p] = "m_wait"]
    /\ UNCHANGED <<now, crate, cancelled, next_tick, entries, refresh_states, mutex,
                   tok, result, loc, bg_idx, fetch_calls, refresh_failed, first_ok, rest>>

\* .await on the Notified future completes once notify_waiters() has woken it
MrWait(p) ==
    /\ pc[p] = "m_wait"
    /\ p \notin waiters[loc[p].tenant_id]
    /\ Return(p, "WaitedForRefresh")
    /\ UNCHANGED <<now, crate, cancelled, next_tick, entries, refresh_states, waiters,
                   mutex, tok, result, fetch_calls, refresh_failed, first_ok, rest>>

\* the refresh ended in an error: on to the second critical section
RefreshFails(p, answer) ==
    /\ pc' = [pc EXCEPT ![p] = "m_relock"]
    /\ loc' = [loc EXCEPT ![p].attempts = 0, ![p].ok = FALSE,
                          ![p].answers = Logged(@, answer)]
    /\ refresh_failed' = [refresh_failed EXCEPT ![loc[p].tenant_id] = @ + 1]

\* fetch_jwks, one attempt: send() fails (timeout, connect failure); the `?`
\* returns the error at once
FetchSendError(p, e) ==
    /\ pc[p] = "fetch"
    /\ e \in SendErrors
    /\ RefreshFails(p, Answer(e, 0))
    /\ UNCHANGED <<now, crate, cancelled, next_tick, entries, refresh_states, waiters,
                   mutex, tok, result, bg_idx, fetch_calls, first_ok, rest>>

\* fetch_jwks, one attempt: error_for_status is an error; retried when
\* retryable and attempts are left
FetchStatusError(p, status) ==
    /\ pc[p] = "fetch"
    /\ status \in ErrorStatuses
    /\ LET attempts == loc[p].attempts + 1 IN
       IF ~IsRetryableStatus(status) \/ attempts >= max_attempts
       THEN RefreshFails(p, Answer("status", status))
       ELSE /\ pc' = [pc EXCEPT ![p] = "backoff"]
            /\ loc' = [loc EXCEPT ![p].attempts = attempts,
                                  ![p].answers = Logged(@, Answer("status", status))]
            /\ UNCHANGED refresh_failed
    /\ UNCHANGED <<now, crate, cancelled, next_tick, entries, refresh_states, waiters,
                   mutex, tok, result, bg_idx, fetch_calls, first_ok, rest>>

\* tokio::time::sleep(delay).await is over
Backoff(p) ==
    /\ pc[p] = "backoff"
    /\ pc' = [pc EXCEPT ![p] = "fetch"]
    /\ UNCHANGED <<now, crate, cancelled, next_tick, entries, refresh_states, waiters,
                   mutex, tok, result, loc, bg_idx, fetch_calls, refresh_failed, first_ok, rest>>

\* fetch_jwks, one attempt: 2xx, but the body is no JwksResponse
FetchParseError(p) ==
    /\ pc[p] = "fetch"
    /\ RefreshFails(p, Answer("parse", 200))
    /\ UNCHANGED <<now, crate, cancelled, next_tick, entries, refresh_states, waiters,
                   mutex, tok, result, bg_idx, fetch_calls, first_ok, rest>>

\* fetch_jwks, one attempt: 2xx with a JwksResponse; refresh_tenant_jwks_cache
\* takes `now` and waits for the write lock of the cache table
FetchOk(p, response) ==
    /\ pc[p] = "fetch"
    /\ response \in JwksResponses(loc[p].tenant_id) \cup InitialResponses
    /\ pc' = [pc EXCEPT ![p] = "w_lock"]
    /\ loc' = [loc EXCEPT ![p].attempts = 0, ![p].fetched = response, ![p].at = now,
                          ![p].answers = Logged(@, Answer("ok", 200))]
    /\ UNCHANGED <<now, crate, cancelled, next_tick, entries, refresh_states, waiters,
                   mutex, tok, result, bg_idx, fetch_calls, refresh_failed, first_ok, rest>>

\* variant: the write guard outlives the function that took it
WriteGuardKept(holder) == holder

\* the RwLockWriteGuard is dropped at the end of the function that took it:
\* who holds the write lock afterwards
DropWriteGuard(holder) == NoProc

\* self.cache.entries.write().await in refresh_tenant_jwks_cache
WriteLock(p) ==
    /\ pc[p] = "w_lock"
    /\ entries_lock = NoProc
    /\ entries_lock' = p
    /\ pc' = [pc EXCEPT ![p] = "merge"]
    /\ UNCHANGED <<now, crate, cancelled, next_tick, entries, refresh_states, waiters,
                   mutex, tok, result, loc, bg_idx, fetch_calls, refresh_failed, first_ok,
                   outer>>

\* refresh_tenant_jwks_cache under the write lock, which is dropped at its
\* end, then back in maybe_refresh_tenant_jwks_cache: the result is Ok,
\* Instant::now() is taken
Merge(p) ==
    /\ pc[p] = "merge"
    /\ entries_lock = p
    /\ entries_lock' = DropWriteGuard(p)
    /\ entries' = MergeIntoCache(entries, loc[p].tenant_id, loc[p].fetched, loc[p].at)
    /\ pc' = [pc EXCEPT ![p] = "m_relock"]
    /\ loc' = [loc EXCEPT ![p].fetched = <<>>, ![p].ok = TRUE, ![p].at = now,
                          ![p].answers = <<>>,
                          ![p].merged = {loc[p].fetched[i] : i \in 1..Len(loc[p].fetched)}]
    /\ UNCHANGED <<now, crate, cancelled, next_tick, refresh_states, waiters, mutex,
                   tok, result, bg_idx, fetch_calls, refresh_failed, first_ok, outer>>

\* self.cache.refresh_states.lock().await after the refresh
MrRelock(p) ==
    /\ pc[p] = "m_relock"
    /\ mutex = NoProc
    /\ mutex' = p
    /\ pc' = [pc EXCEPT ![p] = "m_finish"]
    /\ loc' = [loc EXCEPT ![p].answers = <<>>]
    /\ UNCHANGED <<now, crate, cancelled, next_tick, entries, refresh_states, waiters,
                   tok, result, bg_idx, fetch_calls, refresh_failed, first_ok, rest>>

\* variant: a successful refresh does not record its time
FinishedStateNoTimestamp(state, ok, at) == [state EXCEPT !.refreshing = FALSE]

\* variant: the time is recorded whether or not the refresh succeeded
FinishedStateAlwaysTimestamp(state, ok, at) ==
    [state EXCEPT !.refreshing = FALSE, !.last_refreshed_at = Some(at)]

\* the refresh state after the refresh: refreshing is reset, last_refreshed_at
\* is set when the refresh succeeded
FinishedState(state, ok, at) ==
    [state EXCEPT !.refreshing = FALSE,
                  !.last_refreshed_at = IF ok THEN Some(at) ELSE @]

\* the second critical section: reset, notify_waiters(), return
MrFinish(p) ==
    /\ pc[p] = "m_finish"
    /\ mutex = p
    /\ LET t == loc[p].tenant_id IN
       /\ refresh_states' =
              [refresh_states EXCEPT ![t] = FinishedState(@, loc[p].ok, loc[p].at)]
       /\ waiters' = [waiters EXCEPT ![t] = {}]
    /\ mutex' = DropGuard(p)
    /\ first_ok' = IF loc[p].ok /\ ~IsSome(first_ok[loc[p].tenant_id])
                   THEN [first_ok EXCEPT ![loc[p].tenant_id] = Some(loc[p].at)]
                   ELSE first_ok
    /\ Return(p, IF loc[p].ok THEN "Refreshed" ELSE "Err")
    /\ UNCHANGED <<now, crate, cancelled, next_tick, entries, tok, result,
                   fetch_calls, refresh_failed, rest>>


(* ------------------------------ verify_token --------------------------- *)

\* variant: a call that is in flight when the token is cancelled is aborted
KeyStepResultUnlessCancelled(t, tenant_id, key, at) ==
    IF cancelled THEN "Cancelled"
    ELSE IF IsSome(key) THEN DecodeClaims(t, Unwrap(key), TenantRegistry[tenant_id], at)
    ELSE "DecodingKeyNotFound"

\* variant: the error maybe_refresh_tenant_jwks_cache returned is passed on
KeyStepResultOrRefreshError(t, tenant_id, key, at) ==
    IF \E p \in Callers : pc[p] = "find2" /\ tok[p] = t /\ loc[p].ret = "Err"
    THEN "JwksFetchError"
    ELSE IF IsSome(key) THEN DecodeClaims(t, Unwrap(key), TenantRegistry[tenant_id], at)
    ELSE "DecodingKeyNotFound"

\* the rest of verify_token once get_decoding_key has an answer
KeyStepResult(t, tenant_id, key, at) ==
    IF IsSome(key) THEN DecodeClaims(t, Unwrap(key), TenantRegistry[tenant_id], at)
    ELSE "DecodingKeyNotFound"

\* request task p is handed bearer token t and runs verify_token up to the
\* first suspension after the first lookup: an error
\* of the header, payload, issuer or registry steps ends the call; a cached
\* key leads to the signed verification; a miss enters
\* maybe_refresh_tenant_jwks_cache, which takes `now` and waits for the mutex
VerifyToken(p, t) ==
    /\ pc[p] = "idle"
    /\ \A q \in Earlier(p) : pc[q] # "idle"
    /\ VerifyRoute(crate, t).err = "ok" => entries_lock = NoProc
    /\ tok' = [tok EXCEPT ![p] = t]
    /\ LET r == VerifyRoute(crate, t) IN
       IF r.err # "ok"
       THEN /\ result' = [result EXCEPT ![p] = r.err]
            /\ pc' = [pc EXCEPT ![p] = "done"]
            /\ UNCHANGED loc
       ELSE LET key == FindDecodingKey(entries, r.tenant_id, r.kid) IN
            IF IsSome(key)
            THEN /\ result' = [result EXCEPT ![p] = KeyStepResult(t, r.tenant_id, key, now)]
                 /\ pc' = [pc EXCEPT ![p] = "done"]
                 /\ UNCHANGED loc
            ELSE /\ pc' = [pc EXCEPT ![p] = "m_lock"]
                 /\ loc' = [loc EXCEPT ![p] = [NoLoc EXCEPT !.tenant_id = r.tenant_id,
                                                            !.now = now]]
                 /\ UNCHANGED result
    /\ registry' = RegistryGet(registry, VerifyRoute(crate, t).tenant_id)
    /\ entries' = LET r == VerifyRoute(crate, t) IN
                  IF r.err = "ok" THEN CacheAfterFind(entries, r.tenant_id, r.kid, now)
                  ELSE entries
    /\ UNCHANGED <<now, crate, cancelled, next_tick, refresh_states, waiters,
                   mutex, bg_idx, fetch_calls, refresh_failed, first_ok,
                   upstream, max_attempts, logging, builder, retry_config,
                   entries_lock>>

\* get_decoding_key after maybe_refresh_tenant_jwks_cache (whose result is
\* dropped): the second lookup, then the signed verification
FindAgain(p) ==
    /\ pc[p] = "find2"
    /\ entries_lock = NoProc
    /\ LET t == loc[p].tenant_id
           key == FindDecodingKey(entries, t, Unwrap(tok[p].kid))
       IN result' = [result EXCEPT ![p] = KeyStepResult(tok[p], t, key, now)]
    /\ pc' = [pc EXCEPT ![p] = "done"]
    /\ loc' = [loc EXCEPT ![p] = NoLoc]
    /\ entries' = CacheAfterFind(entries, loc[p].tenant_id, Unwrap(tok[p].kid), now)
    /\ UNCHANGED <<now, crate, cancelled, next_tick, refresh_states, waiters,
                   mutex, tok, bg_idx, fetch_calls, refresh_failed, first_ok, rest>>

(* ------------------------- the background task ------------------------- *)

\* select!: shutdown.cancelled() is chosen
BgShutdown ==
    /\ pc[BG] = "select"
    /\ cancelled
    /\ pc' = [pc EXCEPT ![BG] = "exited"]
    /\ UNCHANGED <<now, crate, cancelled, next_tick, entries, refresh_states, waiters,
                   mutex, tok, result, loc, bg_idx, fetch_calls, refresh_failed, first_ok, rest>>

\* select!: interval.tick() is chosen; the round starts with the first
\* tenant of the registry
BgTick ==
    /\ pc[BG] = "select"
    /\ now >= next_tick
    /\ next_tick' = next_tick + RefreshJwksInterval
    /\ bg_idx' = 1
    /\ loc' = [loc EXCEPT ![BG] = [NoLoc EXCEPT !.tenant_id = TenantOrder[1], !.now = now,
                                                !.ret = loc[BG].ret]]
    /\ pc' = [pc EXCEPT ![BG] = "m_lock"]
    /\ UNCHANGED <<now, crate, cancelled, entries, refresh_states, waiters, mutex,
                   tok, result, fetch_calls, refresh_failed, first_ok, rest>>

\* self.cache.entries.write().await in cleanup_expired_jwks_cache
CleanupLock ==
    /\ pc[BG] = "c_lock"
    /\ entries_lock = NoProc
    /\ entries_lock' = BG
    /\ pc' = [pc EXCEPT ![BG] = "cleanup"]
    /\ UNCHANGED <<now, crate, cancelled, next_tick, entries, refresh_states, waiters,
                   mutex, tok, result, loc, bg_idx, fetch_calls, refresh_failed, first_ok,
                   outer>>

\* cleanup_expired_jwks_cache under the write lock, which is dropped at its
\* end, then back to select!
Cleanup ==
    /\ pc[BG] = "cleanup"
    /\ entries_lock = BG
    /\ entries_lock' = DropWriteGuard(BG)
    /\ entries' = CleanupCache(entries, now)
    /\ pc' = [pc EXCEPT ![BG] = "select"]
    /\ bg_idx' = 0
    /\ loc' = [loc EXCEPT ![BG] = NoLoc]
    /\ UNCHANGED <<now, crate, cancelled, next_tick, refresh_states, waiters, mutex,
                   tok, result, fetch_calls, refresh_failed, first_ok, outer>>

(* ---------------------------- the environment -------------------------- *)

\* the process cancels the shutdown token
Cancel ==
    /\ ~cancelled
    /\ cancelled' = TRUE
    /\ UNCHANGED <<now, crate, next_tick, entries, refresh_states, waiters, mutex,
                   pc, tok, result, loc, bg_idx, fetch_calls, refresh_failed, first_ok, rest>>

\* time passes (not measurably while the refresh-state mutex is held: the
\* critical sections await nothing)
Tick ==
    /\ now < MaxTime
    /\ mutex = NoProc
    /\ now' = now + 1
    /\ UNCHANGED <<crate, cancelled, next_tick, entries, refresh_states, waiters, mutex,
                   pc, tok, result, loc, bg_idx, fetch_calls, refresh_failed, first_ok, rest>>

\* time passes while only the background task runs
TickRounds ==
    /\ now < MaxRoundsTime
    /\ mutex = NoProc
    /\ now' = now + 1
    /\ UNCHANGED <<crate, cancelled, next_tick, entries, refresh_states, waiters, mutex,
                   pc, tok, result, loc, bg_idx, fetch_calls, refresh_failed, first_ok, rest>>

\* the tenant's identity provider changes, once, the key set its endpoint
\* serves; the request of the scenario arrives after the change
Publish(t, response) ==
    /\ upstream[t] \in InitialResponses
    /\ pc["V1"] = "idle"
    /\ response \in JwksResponses(t) \ InitialResponses
    /\ upstream' = [upstream EXCEPT ![t] = response]
    /\ UNCHANGED <<max_attempts, logging, builder, registry, retry_config, entries_lock, now, crate, cancelled, next_tick, entries, refresh_states, waiters,
                   mutex, pc, tok, result, loc, bg_idx, fetch_calls, refresh_failed,
                   first_ok>>

\* the steps of one task inside maybe_refresh_tenant_jwks_cache but for the
\* 2xx answer of the endpoint
RefreshSteps(p) ==
    \/ MrLock(p)
    \/ MrCheck(p)
    \/ \E e \in SendErrors : FetchSendError(p, e)
    \/ \E status \in ErrorStatuses : FetchStatusError(p, status)
    \/ Backoff(p)
    \/ FetchParseError(p)
    \/ WriteLock(p)
    \/ Merge(p)
    \/ MrRelock(p)
    \/ MrFinish(p)

\* the steps of one task inside maybe_refresh_tenant_jwks_cache that need no
\* other task to be refreshing; the endpoint serves any of its key sets
Refresher(p) ==
    \/ RefreshSteps(p)
    \/ \E response \in JwksResponses(loc[p].tenant_id) : FetchOk(p, response)

\* the steps of one task inside maybe_refresh_tenant_jwks_cache
MaybeRefresh(p) ==
    \/ Refresher(p)
    \/ MrSubscribe(p)
    \/ MrWait(p)

\* the verifier serving requests, the background task running
Next ==
    \/ \E p \in Callers : \E t \in RequestTokens : VerifyToken(p, t)
    \/ \E p \in Callers : FindAgain(p)
    \/ \E p \in Procs : MaybeRefresh(p)
    \/ BgTick
    \/ CleanupLock
    \/ Cleanup
    \/ Tick

Spec == Init /\ [][Next]_vars

\* the future of request p's verify_token is dropped while it is pending at
\* an .await of maybe_refresh_tenant_jwks_cache (the lock of the mutex, the
\* Notified, the HTTP request, the sleep, the write lock): its locals are
\* gone, its Notified is gone, nothing of its remaining code runs
DropRequest(p) ==
    /\ pc[p] \in {"m_lock", "m_wait", "fetch", "backoff", "w_lock", "m_relock"}
    /\ pc' = [pc EXCEPT ![p] = "done"]
    /\ result' = [result EXCEPT ![p] = "Dropped"]
    /\ loc' = [loc EXCEPT ![p] = NoLoc]
    /\ waiters' = [t \in DOMAIN waiters |-> waiters[t] \ {p}]
    /\ UNCHANGED <<now, crate, cancelled, next_tick, entries, refresh_states, mutex,
                   tok, bg_idx, fetch_calls, refresh_failed, first_ok, rest>>

\* the two requests alone, each of which the server may drop while it is
\* pending (its client went away)
NextDrop ==
    \/ \E p \in Callers : \E t \in RequestTokens : VerifyToken(p, t)
    \/ \E p \in Callers : FindAgain(p)
    \/ \E p \in Callers : MaybeRefresh(p)
    \/ \E p \in Callers : DropRequest(p)
    \/ Tick

SpecDrop == Init /\ [][NextDrop]_vars

\* the same where a request that can take a step and is not dropped takes it
SpecDropFair ==
    /\ SpecDrop
    /\ \A p \in Callers : WF_vars(MaybeRefresh(p)) /\ WF_vars(FindAgain(p))

\* the same with the shutdown token: one request, the background task, and
\* the process cancelling the token at any moment
NextShutdown ==
    \/ \E t \in RequestTokens : VerifyToken("V1", t)
    \/ FindAgain("V1")
    \/ \E p \in {"V1", BG} : MaybeRefresh(p)
    \/ BgTick
    \/ CleanupLock
    \/ Cleanup
    \/ BgShutdown
    \/ Cancel
    \/ Tick

SpecShutdown == Init /\ [][NextShutdown]_vars

\* the same where no task that can take a step is left waiting for ever:
\* the runtime polls every task that is ready, an HTTP request ends (in an
\* answer or in its timeout), a sleep ends
SpecShutdownFair ==
    /\ SpecShutdown
    /\ \A p \in {"V1", BG} : WF_vars(MaybeRefresh(p))
    /\ WF_vars(FindAgain("V1"))
    /\ WF_vars(CleanupLock)
    /\ WF_vars(Cleanup)
    /\ WF_vars(BgShutdown)

\* one request and the background task, the endpoints serving what their
\* tenants published
NextUpstream ==
    \/ \E t \in RequestTokens : VerifyToken("V1", t)
    \/ FindAgain("V1")
    \/ \E p \in {"V1", BG} :
          \/ RefreshSteps(p)
          \/ FetchOk(p, upstream[loc[p].tenant_id])
          \/ MrSubscribe(p)
          \/ MrWait(p)
    \/ \E t \in Tenants : \E response \in JwksResponses(t) : Publish(t, response)
    \/ BgTick
    \/ CleanupLock
    \/ Cleanup
    \/ Tick

SpecUpstream == Init /\ [][NextUpstream]_vars

\* fetch_jwks under every retry limit: the first round of the background
\* task alone, which fetches for each tenant in turn
InitFetch ==
    /\ InitVerifier
    /\ max_attempts \in 1..MaxAttemptsTried
    /\ logging = TRUE
    /\ crate = "backend"
    /\ pc = [p \in Procs |-> IF p = BG THEN "select" ELSE "idle"]

NextFetch ==
    \/ BgTick
    \/ Refresher(BG)
    \/ CleanupLock
    \/ Cleanup

SpecFetch == InitFetch /\ [][NextFetch]_vars

\* the background task alone, over several of its rounds, with the shutdown
\* token cancelled at any moment
NextRounds ==
    \/ BgTick
    \/ Refresher(BG)
    \/ CleanupLock
    \/ Cleanup
    \/ BgShutdown
    \/ Cancel
    \/ TickRounds

SpecRounds == Init /\ [][NextRounds]_vars

(* ------------------- EntraIdTokenVerifierBuilder, new ------------------ *)

\* what a step of the construction leaves alone
running == <<now, crate, cancelled, waiters, mutex, tok, result, loc, bg_idx,
             fetch_calls, refresh_failed, first_ok, upstream, max_attempts, logging,
             retry_config, entries_lock>>

\* a setter of the builder, called once at most: Err(Initialize) for an
\* argument it rejects (the builder is consumed), else the field is Some
Set(param, v) ==
    /\ builder.step = "setters"
    /\ builder.params[param] = None
    /\ v \in SetterValues(param)
    /\ builder' = IF Rejects(param, v)
                  THEN Failed(builder, "Initialize", Call(param, v))
                  ELSE [builder EXCEPT !.params[param] = Some(v), !.call = Call(param, v)]
    /\ UNCHANGED <<next_tick, entries, refresh_states, pc, registry, running>>

\* build(): Err(Initialize) for the first field that is None; else new()
\* up to its first fetch: the registry is filled from the tenant list and
\* the JwksProvider made (the reqwest client can fail to build)
Build(client_ok) ==
    /\ builder.step = "setters"
    /\ IF \E param \in Params : builder.params[param] = None
       THEN /\ builder' = Failed(builder, "Initialize", Call("build", 0))
            /\ UNCHANGED registry
       ELSE IF ~client_ok
       THEN /\ builder' = Failed(builder, "JwksProviderInitError", Call("build", 0))
            /\ UNCHANGED registry
       ELSE /\ builder' = [builder EXCEPT !.step = "fetching", !.call = Call("build", 0)]
            /\ registry' = NewRegistry(Unwrap(builder.params["tenants"]))
    /\ UNCHANGED <<next_tick, entries, refresh_states, pc, running>>

\* new(), one round of the loop over the registry (a HashMap: any order):
\* provider.fetch_jwks(&tenant.uri).await? returns the error, or the keys
\* are inserted and the tenant gets its default refresh state; after the
\* last tenant the verifier is made and the background task spawned
InitialFetch(t, outcome) ==
    /\ builder.step = "fetching"
    /\ t \in DOMAIN registry
    /\ \A i \in 1..Len(builder.fetched) : builder.fetched[i] # t
    /\ LET call == Call("fetch_jwks", [tenant |-> t, outcome |-> outcome])
           fetched == Append(builder.fetched, t)
       IN IF outcome # "ok"
          THEN /\ builder' = Failed(builder, outcome, call)
               /\ UNCHANGED <<entries, refresh_states, pc, next_tick>>
          ELSE /\ entries' = (t :> InsertKeys(EmptyMap, upstream[t], now)) @@ entries
               /\ refresh_states' = (t :> DefaultRefreshState) @@ refresh_states
               /\ IF FetchedAll(registry, fetched)
                  THEN /\ builder' = [builder EXCEPT !.step = "built", !.call = call,
                                                     !.fetched = fetched]
                       /\ pc' = [pc EXCEPT ![BG] = "select"]
                       /\ next_tick' = now
                  ELSE /\ builder' = [builder EXCEPT !.call = call, !.fetched = fetched]
                       /\ UNCHANGED <<pc, next_tick>>
    /\ UNCHANGED <<registry, running>>

\* no verifier, no cache, no background task
NoVerifier ==
    /\ now = 0
    /\ cancelled = FALSE
    /\ next_tick = 0
    /\ upstream \in [Tenants -> InitialResponses]
    /\ entries = EmptyMap
    /\ refresh_states = EmptyMap
    /\ waiters = [t \in Tenants |-> {}]
    /\ mutex = NoProc
    /\ tok = [p \in Callers |-> NoToken]
    /\ result = [p \in Callers |-> "-"]
    /\ loc = [p \in Procs |-> NoLoc]
    /\ bg_idx = 0
    /\ fetch_calls = [t \in Tenants |-> 0]
    /\ refresh_failed = [t \in Tenants |-> 0]
    /\ first_ok = [t \in Tenants |-> None]
    /\ max_attempts = MaxAttempts
    /\ logging = FALSE
    /\ crate = "backend"
    /\ pc = [p \in Procs |-> IF p = BG THEN "unspawned" ELSE "idle"]
    /\ registry = EmptyMap

\* before the builder is made
InitBuild ==
    /\ NoVerifier
    /\ builder = NewBuilder
    /\ retry_config = UsedRetryConfig
    /\ entries_lock = NoProc

\* the builder is filled in any order, build is called at any moment
NextBuild ==
    \/ \E param \in Params : \E v \in SetterValues(param) : Set(param, v)
    \/ \E client_ok \in BOOLEAN : Build(client_ok)
    \/ \E t \in Tenants : \E outcome \in FetchOutcomes : InitialFetch(t, outcome)

SpecBuild == InitBuild /\ [][NextBuild]_vars

\* RetryConfig::new(..) returns
New ==
    /\ retry_config.step = "args"
    /\ retry_config' = Returned(retry_config)
    /\ UNCHANGED <<now, crate, cancelled, next_tick, entries, refresh_states, waiters,
                   mutex, pc, tok, result, loc, bg_idx, fetch_calls, refresh_failed,
                   first_ok, upstream, max_attempts, logging, builder, registry,
                   entries_lock>>

\* RetryConfig::new called with any of the arguments tried, before a
\* builder is made
InitRetry ==
    /\ NoVerifier
    /\ builder = NewBuilder
    /\ retry_config \in {RetryCall(args) : args \in RetryArgsTried}
    /\ entries_lock = NoProc

NextRetry == New

SpecRetry == InitRetry /\ [][NextRetry]_vars

\* one request with any token, in either crate, nothing else running
InitVerify ==
    /\ InitVerifier
    /\ max_attempts = MaxAttempts
    /\ logging = FALSE
    /\ crate \in Crates
    /\ pc = [p \in Procs |-> IF p = BG THEN "select" ELSE "idle"]

NextVerify ==
    \/ \E t \in AllTokens \cup SignedTokens : VerifyToken("V1", t)
    \/ FindAgain("V1")
    \/ Refresher("V1")
    \/ Tick

SpecVerify == InitVerify /\ [][NextVerify]_vars

(* ------------------------------ properties ----------------------------- *)

\* the positions of a task between being granted a refresh and completing it
RefresherPcs == {"fetch", "backoff", "w_lock", "merge", "m_relock", "m_finish"}

Refreshers(t) == {p \in Procs : pc[p] \in RefresherPcs /\ loc[p].tenant_id = t}

\* task p takes the step that leaves position `at`
Leaves(p, at) == pc[p] = at /\ pc'[p] # at

\* the cooldown of tenant t's last successful refresh is still running
CooldownRunning(t) ==
    /\ IsSome(refresh_states[t].last_refreshed_at)
    /\ now - Unwrap(refresh_states[t].last_refreshed_at) < RefreshTenantJwksInterval

\* C1: for each tenant at most one task, request or background, is between
\* being granted a refresh and completing it, and the refreshing flag is set
\* exactly while there is one
AtMostOneRefresher ==
    \A t \in Tenants :
        /\ Cardinality(Refreshers(t)) <= 1
        /\ refresh_states[t].refreshing <=> Refreshers(t) # {}

\* a request fetches for T1 while the background task and the other request
\* are held off for the same tenant
OneRefresherOthersWait ==
    /\ pc["V1"] = "fetch" /\ loc["V1"].tenant_id = "T1"
    /\ pc["V2"] = "m_wait" /\ loc["V2"].tenant_id = "T1"
    /\ pc[BG] \in {"m_subscribe", "m_wait"} /\ loc[BG].tenant_id = "T1"

CooldownSuppressesFetch ==
    [][\A p \in Procs : Leaves(p, "m_check") =>
          LET t == loc[p].tenant_id IN
          /\ (t \in Tenants /\ CooldownRunning(t)) =>
                 /\ loc'[p].ret = "RecentlyRefreshed"
                 /\ pc'[p] \notin {"fetch", "m_subscribe"}
                 /\ UNCHANGED <<entries, refresh_states, fetch_calls, waiters>>
          /\ pc'[p] = "fetch" =>
                 \/ ~IsSome(refresh_states[t].last_refreshed_at)
                 \/ now - Unwrap(refresh_states[t].last_refreshed_at)
                        >= RefreshTenantJwksInterval]_vars

\* a request that missed inside the cooldown is back with RecentlyRefreshed
SuppressedByCooldown ==
    \E p \in Callers :
        /\ pc[p] = "find2"
        /\ loc[p].ret = "RecentlyRefreshed"
        /\ CooldownRunning(loc[p].tenant_id)

\* C4: completing a failed refresh resets refreshing and changes nothing
\* else of the refresh state, so last_refreshed_at stays what it was; and a
\* check that finds the tenant never refreshed and not refreshing is granted
\* a new fetch
FailedRefreshKeepsTimestamp ==
    [][\A p \in Procs :
          LET t == loc[p].tenant_id IN
          /\ (Leaves(p, "m_finish") /\ ~loc[p].ok) =>
                 refresh_states' = [refresh_states EXCEPT ![t].refreshing = FALSE]
          /\ ( /\ Leaves(p, "m_check") /\ t \in Tenants
               /\ ~IsSome(refresh_states[t].last_refreshed_at)
               /\ ~refresh_states[t].refreshing ) =>
                 /\ pc'[p] = "fetch"
                 /\ fetch_calls'[t] = fetch_calls[t] + 1]_vars

\* after a failed refresh of T1 a later call fetches again
FetchAfterFailedRefresh ==
    /\ refresh_failed["T1"] >= 1
    /\ ~IsSome(refresh_states["T1"].last_refreshed_at)
    /\ \E p \in Callers : pc[p] = "fetch" /\ loc[p].tenant_id = "T1"

\* C5 as stated: no waiter remains blocked once refreshing is back to false,
\* i.e. a task that awaits its Notified future does so only while the
\* tenant's refresh is in flight
NoWaiterBlockedAfterReset ==
    \A p \in Procs :
        (pc[p] = "m_wait" /\ p \in waiters[loc[p].tenant_id])
            => refresh_states[loc[p].tenant_id].refreshing

\* C6 as stated: a cleanup leaves at least one key to every tenant whose
\* cache was non-empty before it
CleanupKeepsOneKey ==
    [][Leaves(BG, "cleanup") =>
          \A t \in DOMAIN entries :
              DOMAIN entries[t] # {} => DOMAIN entries'[t] # {}]_vars

\* C7: a merge into a tenant's cache removes no key, stores every fetched kid
\* with last_seen_at = the Instant the merge took, leaves the entries of the
\* kids that were not fetched as they were, and touches no other tenant
MergeOnlyAdds ==
    [][\A p \in Procs : Leaves(p, "merge") =>
          LET t == loc[p].tenant_id
              fetched == {loc[p].fetched[i].kid : i \in 1..Len(loc[p].fetched)}
          IN /\ DOMAIN entries'[t] = DOMAIN entries[t] \cup fetched
             /\ \A k \in fetched : entries'[t][k].last_seen_at = loc[p].at
             /\ \A k \in DOMAIN entries[t] \ fetched : entries'[t][k] = entries[t][k]
             /\ \A u \in DOMAIN entries \ {t} : entries'[u] = entries[u]
             /\ DOMAIN entries' = DOMAIN entries]_vars

\* a merge of a response without k1 has added k2 and kept k1 as it was
MergedKeepingOldKey ==
    \E p \in Procs :
        /\ pc[p] = "m_relock" /\ loc[p].ok /\ loc[p].tenant_id = "T1"
        /\ DOMAIN entries["T1"] = {"k1", "k2"}
        /\ entries["T1"]["k1"].last_seen_at < entries["T1"]["k2"].last_seen_at

\* C8: the cache table has an entry, possibly without keys, for every tenant
\* of the registry
EveryTenantHasEntry == DOMAIN TenantRegistry \subseteq DOMAIN entries

\* the cleanup has run and left a tenant's entry without keys
TenantEntryWithoutKeys ==
    /\ pc[BG] = "select" /\ next_tick > 0
    /\ \E t \in Tenants : t \in DOMAIN entries /\ DOMAIN entries[t] = {}

\* the request of the single-request specification ended with error `err`
\* without entering maybe_refresh_tenant_jwks_cache and without a fetch
RejectedWithoutIO(err) ==
    /\ pc["V1"] = "done"
    /\ result["V1"] = err
    /\ \A t \in Tenants : fetch_calls[t] = 0

\* the first path segment of the token's iss is common or organizations
IssDisallowed(t) ==
    /\ t.iss.kind = "url"
    /\ Len(t.iss.segs) > 0
    /\ t.iss.segs[1] \in {"common", "organizations"}

\* verify_token gets as far as specify_issuer with token t: the header
\* checks and the payload peek pass
ReachesIssuerStep(t) ==
    LET header == DecodeHeader(t) IN
    /\ header.ok
    /\ "ok" = IF crate = "backend" THEN CheckHeaderBackend(header)
              ELSE CheckHeaderEntraIdBackend(header)
    /\ ExtractPayload(t).err = "ok"

\* C9 as stated: a three-part token whose header is base64url JSON with an
\* alg other than RS256 is rejected with UnsupportedTokenAlgorithm and
\* without network I/O, whatever else the header and the payload hold
NonRs256IsUnsupported ==
    ( /\ pc["V1"] # "idle"
      /\ tok["V1"].parts = JWT_PARTS_COUNT /\ tok["V1"].hdr = "ok"
      /\ tok["V1"].alg # "RS256" )
    => RejectedWithoutIO("UnsupportedTokenAlgorithm")

\* C9: a token whose header alg is not RS256 is rejected without network
\* I/O with one of three header errors: UnsupportedTokenAlgorithm exactly
\* when the header decodes (three parts, base64url JSON, alg a known
\* Algorithm) and, in entra-id-backend, has a kid; else
\* TokenHeaderDecodeError or TokenHeaderMissingKid
NonRs256IsRejectedByHeader ==
    (pc["V1"] # "idle" /\ tok["V1"].alg # "RS256") =>
        /\ \E err \in {"UnsupportedTokenAlgorithm", "TokenHeaderDecodeError",
                        "TokenHeaderMissingKid"} : RejectedWithoutIO(err)
        /\ result["V1"] = "UnsupportedTokenAlgorithm" <=>
               /\ tok["V1"].parts = JWT_PARTS_COUNT
               /\ tok["V1"].hdr = "ok"
               /\ tok["V1"].alg \in KnownAlgorithms
               /\ crate = "backend" \/ IsSome(tok["V1"].kid)

\* an HS256 token that is otherwise a token of T1 with a kid that is not
\* cached is rejected at the header
Hs256TokenRejected ==
    /\ tok["V1"] = [GoodToken("T1", "k2") EXCEPT !.alg = "HS256"]
    /\ RejectedWithoutIO("UnsupportedTokenAlgorithm")

\* C10 as stated: a token that reaches the issuer step and whose iss starts
\* with common or organizations is rejected with DisallowedIssuerTenant and
\* without network I/O, with or without a tid claim
DisallowedIssIsRejected ==
    (pc["V1"] # "idle" /\ ReachesIssuerStep(tok["V1"]) /\ IssDisallowed(tok["V1"]))
        => RejectedWithoutIO("DisallowedIssuerTenant")

\* C10: a token that passes the header checks and the payload peek and
\* whose iss starts with common or organizations is rejected with
\* DisallowedIssuerTenant and without network I/O when it has no tid; with
\* a tid it is routed by the tid, is never answered DisallowedIssuerTenant,
\* and is never accepted
DisallowedIssWithoutTid ==
    (pc["V1"] # "idle" /\ ReachesIssuerStep(tok["V1"]) /\ IssDisallowed(tok["V1"]))
    => /\ ~IsSome(tok["V1"].tid) => RejectedWithoutIO("DisallowedIssuerTenant")
       /\ IsSome(tok["V1"].tid) => result["V1"] \notin {"DisallowedIssuerTenant", "Claims"}

\* a token without tid whose iss names common, otherwise good with a kid
\* that is not cached, is rejected as a disallowed issuer
CommonIssRejected ==
    /\ tok["V1"].iss = IssUrl(<<"common", "v2.0">>)
    /\ ~IsSome(tok["V1"].tid)
    /\ tok["V1"].kid = Some("k2")
    /\ RejectedWithoutIO("DisallowedIssuerTenant")

\* task p takes the step that ends its verify_token call
Ends(p) == pc[p] # "done" /\ pc'[p] = "done"

\* the signed verification of token t against tenant_id's registry entry and
\* the key cached for it under kid passes at the present Instant
SignedVerificationPasses(t, tenant_id, kid) ==
    /\ t.signer = entries[tenant_id][kid].jwk
    /\ t.iss = TenantRegistry[tenant_id].issuer
    /\ t.aud = TenantRegistry[tenant_id].audience
    /\ t.exp >= now

RoundTrip ==
    [][/\ \A p \in Procs : Leaves(p, "merge") =>
              \A i \in 1..Len(loc[p].fetched) :
                  LET key == loc[p].fetched[i] IN
                  key.kid \notin DOMAIN entries[loc[p].tenant_id] =>
                      /\ key.kid \in DOMAIN entries'[loc[p].tenant_id]
                      /\ entries'[loc[p].tenant_id][key.kid].jwk = key
       /\ \A p \in Callers : Ends(p) =>
              LET t == tok'[p]
                  r == VerifyRoute(crate, t)
              IN ( /\ r.err = "ok"
                   /\ r.kid \in DOMAIN entries[r.tenant_id]
                   /\ SignedVerificationPasses(t, r.tenant_id, r.kid) )
                 => result'[p] = "Claims"]_vars

\* a token signed with k2, which only a refresh can have cached, ended with
\* the claims
VerifiedWithRefreshedKey ==
    \E p \in Callers :
        /\ pc[p] = "done"
        /\ tok[p] = GoodToken("T1", "k2")
        /\ result[p] = "Claims"

\* C13 as stated: the verifier was built when T1 served k1 only and T1 now
\* serves {k1, k2}; when the first request with a valid k2 token has ended
\* and no refresh has failed, it ended with the claims and T1's endpoint has
\* been fetched once since construction (twice with the initial fetch)
UnknownKidFetchedTwice ==
    ( /\ pc["V1"] = "done"
      /\ tok["V1"] = GoodToken("T1", "k2")
      /\ upstream["T1"] = <<Jwk("k1", "n1"), Jwk("k2", "n1")>>
      /\ refresh_failed["T1"] = 0 )
    => /\ result["V1"] = "Claims"
       /\ fetch_calls["T1"] = 1

\* C14 as stated: the background task starts no round of maybe_refresh calls
\* and cleanup earlier than refresh_jwks_interval after it was spawned (the
\* clock reads 0 when it is spawned)
FirstRoundAfterInterval ==
    (pc[BG] \notin {"select", "exited"} \/ next_tick > 0) => now >= RefreshJwksInterval

\* the answers of the fetch_jwks call of the background task once its
\* present request is answered, and the last of them
AnswersAfter == loc'[BG].answers
LastAnswer == AnswersAfter[Len(AnswersAfter)]

\* a failure the specification calls retryable: a timeout, a connect
\* failure, an HTTP 5xx or an HTTP 429
SaidRetryable(a) ==
    \/ a.kind \in {"timeout", "connect"}
    \/ a.kind = "status" /\ ((a.status >= 500 /\ a.status <= 599) \/ a.status = 429)

\* C15 as stated: after a failed attempt fetch_jwks makes a further attempt
\* exactly when the failure is a timeout, a connect failure, a 5xx or a 429
\* and fewer than max_attempts attempts have been made; any other failure
\* ends the call with an error
RetryIffRetryable ==
    [][(Leaves(BG, "fetch") /\ LastAnswer.kind # "ok") =>
          /\ pc'[BG] = "backoff" <=>
                 (SaidRetryable(LastAnswer) /\ Len(AnswersAfter) < max_attempts)
          /\ pc'[BG] # "backoff" => (pc'[BG] = "m_relock" /\ ~loc'[BG].ok)]_vars

\* C16: with max_attempts >= 4 an endpoint answering 429, 500, 503 is asked
\* again each time and its 200 as the fourth answer makes fetch_jwks succeed,
\* after exactly 4 requests; a 400 as the first answer makes it fail after
\* exactly 1 request
RetriesUntilSuccess ==
    [][Leaves(BG, "fetch") =>
          LET a429 == Answer("status", 429)
              a500 == Answer("status", 500)
              a503 == Answer("status", 503)
          IN /\ ( /\ max_attempts >= 4
                  /\ AnswersAfter \in {<<a429>>, <<a429, a500>>, <<a429, a500, a503>>} )
                => pc'[BG] = "backoff"
             /\ AnswersAfter = <<a429, a500, a503, Answer("ok", 200)>>
                => (pc'[BG] = "w_lock" /\ max_attempts >= 4)
             /\ AnswersAfter = <<Answer("status", 400)>>
                => (pc'[BG] = "m_relock" /\ ~loc'[BG].ok)]_vars

\* the endpoint answered 429, 500, 503, 200 and the fetch has succeeded
FourthAnswerSucceeded ==
    /\ pc[BG] = "merge"
    /\ loc[BG].answers = <<Answer("status", 429), Answer("status", 500),
                           Answer("status", 503), Answer("ok", 200)>>

\* C17 as stated: a fetch_jwks call never makes more than max_attempts
\* requests, and one that has ended in an error with every attempt failed
\* by a retryable error has made exactly max_attempts requests
RetryableFailuresUseAllAttempts ==
    /\ Len(loc[BG].answers) <= max_attempts
    /\ ( /\ pc[BG] = "m_relock" /\ ~loc[BG].ok
         /\ loc[BG].answers # <<>>
         /\ \A i \in 1..Len(loc[BG].answers) : SaidRetryable(loc[BG].answers[i]) )
       => Len(loc[BG].answers) = max_attempts

\* the state EntraIdTokenVerifier::new leaves when it returns Ok is the
\* state the verifier's specifications start from
BuiltAsInitialised ==
    builder.step = "built" =>
        /\ entries = [t \in Tenants |-> InsertKeys(EmptyMap, upstream[t], 0)]
        /\ refresh_states = [t \in Tenants |-> DefaultRefreshState]
        /\ registry = NewRegistry(TenantOrder)
        /\ builder.params = UsedBuilder.params
        /\ next_tick = 0 /\ pc[BG] = "select"

\* the initial fetch_jwks of a tenant has just returned an error
InitialFetchFailed ==
    builder.call.name = "fetch_jwks" /\ builder.call.arg.outcome # "ok"

\* C18: when the initial fetch of a tenant fails the construction has failed
\* with that error; a failed construction has no background task and makes
\* no further step; the background task exists only once the construction
\* has succeeded, with every tenant of the list registered and fetched
FailFast ==
    /\ InitialFetchFailed =>
          (builder.step = "failed" /\ builder.error = Some(builder.call.arg.outcome))
    /\ builder.step = "failed" => (pc[BG] = "unspawned" /\ ~ENABLED NextBuild)
    /\ pc[BG] # "unspawned" =>
          /\ builder.step = "built"
          /\ DOMAIN registry = {TenantOrder[i] : i \in 1..Len(TenantOrder)}
          /\ \A t \in DOMAIN registry :
                /\ t \in DOMAIN entries
                /\ \E i \in 1..Len(builder.fetched) : builder.fetched[i] = t

\* the fetch of one tenant succeeded, the fetch of the next one failed
SecondFetchFailed ==
    /\ InitialFetchFailed
    /\ Len(builder.fetched) = 1
    /\ pc[BG] = "unspawned"

\* the builder call just made is one the specification says must fail
CallOfInvalidConfig ==
    LET name == builder.call.name
        arg == builder.call.arg
    IN \/ name = "build" /\ \E param \in Params : builder.params[param] = None
       \/ name = "tenants" /\ arg = <<>>
       \/ name = "jwk_cache_ttl" /\ arg = 0
       \/ name = "refresh_jwks_interval" /\ arg < 30
       \/ name = "refresh_tenant_jwks_interval" /\ arg = 0
       \/ name \in {"entra_id_connection_timeout", "entra_id_timeout"} /\ arg = 0

\* C19: a builder call with an unset parameter, an empty tenant list, a zero
\* jwk_cache_ttl, a refresh_jwks_interval below 30 minutes, a zero
\* refresh_tenant_jwks_interval or a zero timeout fails with Initialize and
\* nothing has been fetched; once new runs, every parameter is set and valid
BuiltOnlyFromValidConfig ==
    /\ CallOfInvalidConfig =>
          /\ builder.step = "failed" /\ builder.error = Some("Initialize")
          /\ builder.fetched = <<>> /\ entries = EmptyMap /\ registry = EmptyMap
    /\ (builder.step \in {"fetching", "built"} \/ builder.fetched # <<>>) =>
          /\ \A param \in Params : IsSome(builder.params[param])
          /\ Unwrap(builder.params["tenants"]) # <<>>
          /\ Unwrap(builder.params["jwk_cache_ttl"]) > 0
          /\ Unwrap(builder.params["refresh_jwks_interval"]) >= 30
          /\ Unwrap(builder.params["refresh_tenant_jwks_interval"]) > 0
          /\ Unwrap(builder.params["entra_id_connection_timeout"]) > 0
          /\ Unwrap(builder.params["entra_id_timeout"]) > 0

\* refresh_jwks_interval was called with 29 minutes and returned the error
IntervalBelowMinimumRejected ==
    /\ builder.call = Call("refresh_jwks_interval", 29)
    /\ builder.step = "failed"

\* C20: no step of a verify call, of maybe_refresh, of the merge, of the
\* cleanup or of a background round changes the registry: it holds the
\* tenants, with their jwks_uri, issuer and audience, it was constructed with
RegistryReadOnly ==
    /\ registry = TenantRegistry
    /\ \A t \in DOMAIN registry :
          registry[t] = [id |-> t, uri |-> <<"jwks", t>>,
                         issuer |-> IssuerOf(t), audience |-> AudienceOf(t)]

\* a request was answered, a refresh merged and a cleanup done
ServedRefreshedAndCleaned ==
    /\ \E p \in Callers : pc[p] = "done"
    /\ \E t \in Tenants : IsSome(first_ok[t])
    /\ pc[BG] = "select" /\ next_tick > 0

\* the next step of request task p inside verify_token
RequestStep(p) ==
    \/ \E t \in RequestTokens : VerifyToken(p, t)
    \/ FindAgain(p)
    \/ MaybeRefresh(p)

\* what the next step of request task p waits for: the refresh-state mutex
\* before a critical section, the lock of the cache table before a lookup or
\* a merge, the wake-up of its Notified future; nothing else, and nothing
\* once the call has returned
Runnable(p) ==
    CASE pc[p] \in {"m_lock", "m_relock"} -> mutex = NoProc
      [] pc[p] \in {"idle", "find2", "w_lock"} -> entries_lock = NoProc
      [] pc[p] = "m_wait" -> p \notin waiters[loc[p].tenant_id]
      [] pc[p] = "done" -> FALSE
      [] OTHER -> TRUE

RefreshErrorsKeepTaskRunning ==
    /\ [](pc[BG] = "exited" => cancelled)
    /\ []((pc[BG] = "select" /\ now >= next_tick) => ENABLED BgTick)
    /\ [][pc'[BG] = "exited" => pc[BG] \in {"select", "exited"}]_vars
    /\ [][(Leaves(BG, "m_finish") /\ ~loc[BG].ok) =>
            pc'[BG] = IF bg_idx < Len(TenantOrder) THEN "m_lock" ELSE "c_lock"]_vars

\* the refresh of every tenant has failed in the first round, the token is
\* not cancelled, and the second round has started
NextRoundAfterFailedRound ==
    /\ ~cancelled
    /\ \A t \in Tenants : refresh_failed[t] >= 1 /\ first_ok[t] = None
    /\ next_tick = 2 * RefreshJwksInterval
    /\ pc[BG] = "m_lock"

\* C23 as stated: once the token is cancelled the background task exits,
\* whatever it is doing when the token is cancelled
CancelledTaskExits == cancelled ~> pc[BG] = "exited"

\* C24: a task that is fetching, sleeping in the backoff, waiting for the
\* write lock to merge, or waiting for the notification does not hold the
\* refresh-state mutex; the mutex is held inside the two critical sections
\* only
MutexNotHeldAcrossIO ==
    \A p \in Procs :
        /\ pc[p] \in {"fetch", "backoff", "w_lock", "merge", "m_subscribe", "m_wait"}
              => mutex # p
        /\ mutex = p => pc[p] \in {"m_check", "m_finish"}

\* one task is inside a critical section while another one is fetching, and
\* a third one waits for the notification
LockedWhileAnotherFetches ==
    \E p, q, w \in Procs :
        /\ pc[p] = "fetch" /\ mutex = q /\ q # p
        /\ pc[w] = "m_wait"

\* the tenant id a token names: its tid, else the first path segment of iss
NamedTenant(t) == IF IsSome(t.tid) THEN Unwrap(t.tid) ELSE t.iss.segs[1]

\* the first step of verify_token that token t fails, read off the token
\* alone: header decode (with alg and kid), payload peek, issuer
\* classification, tenant lookup; "key" when it passes all four
FirstFailure(t) ==
    IF t.parts # 3 \/ t.hdr # "ok" \/ t.alg # "RS256" \/ t.kid = None THEN "header"
    ELSE IF t.payload # "ok" \/ t.iss.kind = "absent" THEN "payload"
    ELSE IF t.tid = None /\ (t.iss.kind # "url" \/ t.iss.segs = <<>> \/ IssDisallowed(t))
    THEN "issuer"
    ELSE IF NamedTenant(t) \notin Tenants THEN "tenant"
    ELSE "key"

\* the errors of each step
ErrorsOf(step) ==
    CASE step = "header" ->
            {"TokenHeaderDecodeError", "UnsupportedTokenAlgorithm", "TokenHeaderMissingKid"}
      [] step = "payload" ->
            {"InvalidTokenFormat", "TokenPayloadDecodeError", "TokenPayloadParseError"}
      [] step = "issuer" ->
            {"TokenMissingIssuer", "InvalidIssuerFormat", "DisallowedIssuerTenant"}
      [] step = "tenant" -> {"TenantNotFound"}

\* C25: a verify call ends at the first of the steps header, payload,
\* issuer, tenant its token fails, with an error of that step, and no
\* refresh or fetch follows; a token passing the four reaches the key
\* lookup: with the key cached the call ends in the outcome of the signed
\* verification, else it enters maybe_refresh, and after the second lookup it
\* ends in DecodingKeyNotFound exactly when the key is still missing and in
\* the outcome of the signed verification otherwise
StepsInOrder ==
    /\ [][Leaves("V1", "idle") =>
            LET t == tok'["V1"]
                step == FirstFailure(t)
            IN IF step # "key"
               THEN /\ pc'["V1"] = "done"
                    /\ result'["V1"] \in ErrorsOf(step)
                    /\ UNCHANGED <<entries, refresh_states, fetch_calls, mutex, loc>>
               ELSE IF IsSome(FindDecodingKey(entries, NamedTenant(t), Unwrap(t.kid)))
               THEN pc'["V1"] = "done" /\ result'["V1"] \in {"Claims", "VerifyTokenError"}
               ELSE pc'["V1"] = "m_lock" /\ loc'["V1"].tenant_id = NamedTenant(t)]_vars
    /\ [][Leaves("V1", "find2") =>
            LET t == tok["V1"] IN
            /\ pc'["V1"] = "done"
            /\ result'["V1"] =
                  IF IsSome(FindDecodingKey(entries, NamedTenant(t), Unwrap(t.kid)))
                  THEN DecodeClaims(t, entries[NamedTenant(t)][Unwrap(t.kid)].jwk,
                                    TenantRegistry[NamedTenant(t)], now)
                  ELSE "DecodingKeyNotFound"]_vars

\* a token whose header, payload and iss are all bad was rejected with the
\* header's error and nothing was fetched
HeaderErrorComesFirst ==
    /\ RejectedWithoutIO("TokenHeaderDecodeError")
    /\ tok["V1"].hdr = "bad"
    /\ tok["V1"].payload = "json"
    /\ tok["V1"].tid = None /\ IssDisallowed(tok["V1"])

\* C26: a verify call enters maybe_refresh only from the miss of its first
\* lookup and for the routed tenant; whatever maybe_refresh returns - its
\* error included - the call goes to the second lookup and from there ends:
\* with DecodingKeyNotFound when the key is missing, else with the outcome of
\* the signed verification against the key found
RefreshErrorIgnored ==
    [][\A p \in Callers :
          /\ (pc'[p] = "m_lock" /\ pc[p] # "m_lock") =>
                /\ pc[p] = "idle"
                /\ ~IsSome(FindDecodingKey(entries, NamedTenant(tok'[p]), Unwrap(tok'[p].kid)))
                /\ loc'[p].tenant_id = NamedTenant(tok'[p])
          /\ (pc'[p] = "find2" /\ pc[p] # "find2") =>
                /\ pc[p] \in {"m_check", "m_wait", "m_finish"}
                /\ loc'[p].ret \in {"RecentlyRefreshed", "WaitedForRefresh", "Refreshed", "Err"}
                /\ UNCHANGED result
          /\ Leaves(p, "find2") =>
                /\ pc'[p] = "done"
                /\ UNCHANGED <<fetch_calls, entries, refresh_states>>
                /\ result'[p] =
                      IF IsSome(FindDecodingKey(entries, loc[p].tenant_id, Unwrap(tok[p].kid)))
                      THEN DecodeClaims(tok[p], entries[loc[p].tenant_id][Unwrap(tok[p].kid)].jwk,
                                        TenantRegistry[loc[p].tenant_id], now)
                      ELSE "DecodingKeyNotFound"]_vars

\* the only refresh so far is the one the request made on its miss, it
\* failed, and the request ended with DecodingKeyNotFound
FailedRefreshThenKeyNotFound ==
    /\ pc["V1"] = "done" /\ result["V1"] = "DecodingKeyNotFound"
    /\ pc["V2"] = "idle"
    /\ pc[BG] = "select" /\ next_tick = 0
    /\ fetch_calls["T1"] = 1 /\ refresh_failed["T1"] = 1

\* the background task is inside a maybe_refresh_tenant_jwks_cache call
InMaybeRefresh ==
    pc[BG] \in {"m_lock", "m_check", "m_subscribe", "m_wait", "fetch", "backoff",
                "w_lock", "merge", "m_relock", "m_finish"}

\* C27: a round of the background task calls maybe_refresh for the tenants
\* of the registry one after the other, whatever the calls return; the
\* cleanup is entered only when the call for the last tenant has returned,
\* and the round ends only through the cleanup, which runs once
EveryTenantThenCleanup ==
    /\ [](InMaybeRefresh =>
             (bg_idx \in 1..Len(TenantOrder) /\ loc[BG].tenant_id = TenantOrder[bg_idx]))
    /\ [](pc[BG] \in {"c_lock", "cleanup"} => bg_idx = Len(TenantOrder))
    /\ [][(Leaves(BG, "select") /\ pc'[BG] # "exited") =>
             (InMaybeRefresh' /\ bg_idx' = 1)]_vars
    /\ [][bg_idx' # bg_idx =>
             \/ bg_idx' = bg_idx + 1 /\ InMaybeRefresh'
             \/ bg_idx' = 0 /\ Leaves(BG, "cleanup")
             \/ bg_idx' = 1 /\ Leaves(BG, "select")]_vars
    /\ [][Leaves(BG, "cleanup") => pc'[BG] = "select"]_vars
    /\ [][(pc'[BG] = "select" /\ pc[BG] # "select") => pc[BG] = "cleanup"]_vars
    /\ [][(pc'[BG] = "cleanup" /\ pc[BG] # "cleanup") => pc[BG] = "c_lock"]_vars

\* a round is over in which the refresh of the first tenant failed and the
\* refresh of the second one succeeded
RoundWentOnAfterFailure ==
    /\ pc[BG] = "select" /\ next_tick = RefreshJwksInterval
    /\ refresh_failed[TenantOrder[1]] = 1
    /\ IsSome(first_ok[TenantOrder[2]])

\* the kids of a key map that are younger than the TTL at Instant `at`
FreshKids(jwks, at) == {k \in DOMAIN jwks : at - jwks[k].last_seen_at < Ttl}

\* C28 as stated: the cleanup leaves to each tenant exactly its keys
\* younger than the TTL when there is one, exactly one key when there is
\* none and the tenant had keys; it adds no kid and changes no surviving key
CleanupRetainsFreshOrOne ==
    [][Leaves(BG, "cleanup") =>
          \A t \in DOMAIN entries :
              /\ FreshKids(entries[t], now) # {} =>
                    DOMAIN entries'[t] = FreshKids(entries[t], now)
              /\ (FreshKids(entries[t], now) = {} /\ DOMAIN entries[t] # {}) =>
                    Cardinality(DOMAIN entries'[t]) = 1
              /\ DOMAIN entries'[t] \subseteq DOMAIN entries[t]
              /\ \A k \in DOMAIN entries'[t] : entries'[t][k] = entries[t][k]]_vars

\* C29: the step that merges stores every kid of the response while the
\* tenant is still marked refreshing, and wakes nobody; refreshing is reset
\* and the waiters are woken only by the later step that returns; when that
\* step returns Refreshed every merged kid is cached, unless the TTL has
\* passed since the call began (a cleanup may then have evicted it); no
\* step but the cleanup removes a kid from a cache
MergedBeforeRefreshed ==
    [][\A p \in Procs :
          /\ Leaves(p, "merge") =>
                /\ loc'[p].merged = {loc[p].fetched[i] : i \in 1..Len(loc[p].fetched)}
                /\ {key.kid : key \in loc'[p].merged} \subseteq DOMAIN entries'[loc[p].tenant_id]
                /\ refresh_states[loc[p].tenant_id].refreshing
                /\ UNCHANGED <<refresh_states, waiters>>
                /\ pc'[p] = "m_relock"
          /\ (Leaves(p, "m_finish") /\ loc[p].ok) =>
                /\ ~refresh_states'[loc[p].tenant_id].refreshing
                /\ waiters'[loc[p].tenant_id] = {}
                /\ UNCHANGED entries
                /\ now - loc[p].now < Ttl =>
                        {key.kid : key \in loc[p].merged}
                            \subseteq DOMAIN entries[loc[p].tenant_id]
          /\ (\E t \in Tenants : ~(DOMAIN entries[t] \subseteq DOMAIN entries'[t])) =>
                Leaves(BG, "cleanup")]_vars

\* maybe_refresh has returned Refreshed to a request whose kid was not
\* cached, and the second lookup is about to find the merged key
LookupAfterRefreshed ==
    \E p \in Callers :
        /\ pc[p] = "find2" /\ loc[p].ret = "Refreshed"
        /\ Unwrap(tok[p].kid) = "k2"
        /\ IsSome(FindDecodingKey(entries, loc[p].tenant_id, "k2"))

\* C30 as stated: a token whose header passes and whose payload is
\* base64url JSON is classified by tid when it has one, whatever its iss
\* (TenantNotFound exactly when the tid is not registered, never an issuer
\* error); without a tid it is classified by iss: TokenMissingIssuer or
\* InvalidIssuerFormat when iss is missing or malformed,
\* DisallowedIssuerTenant for common and organizations, else by the first
\* path segment
IssuerClassifiedByTidFirst ==
    LET t == tok["V1"]
        IssuerErrors == {"TokenMissingIssuer", "InvalidIssuerFormat", "DisallowedIssuerTenant"}
    IN (pc["V1"] = "done" /\ FirstFailure(t) # "header" /\ t.payload = "ok") =>
          IF IsSome(t.tid)
          THEN /\ result["V1"] \notin IssuerErrors
               /\ result["V1"] = "TenantNotFound" <=> Unwrap(t.tid) \notin Tenants
          ELSE IF t.iss.kind # "url" \/ t.iss.segs = <<>>
          THEN result["V1"] \in {"TokenMissingIssuer", "InvalidIssuerFormat"}
          ELSE IF t.iss.segs[1] \in {"common", "organizations"}
          THEN result["V1"] = "DisallowedIssuerTenant"
          ELSE /\ result["V1"] \notin IssuerErrors
               /\ result["V1"] = "TenantNotFound" <=> t.iss.segs[1] \notin Tenants

\* C31: a call whose token passes the header, payload and issuer steps and
\* names a tenant that is not registered ends in its first step with
\* TenantNotFound: it enters neither the key lookup nor maybe_refresh,
\* fetches nothing, and leaves the cache table and the refresh states, with
\* the tenants they hold, as they were
UnregisteredTenantRejected ==
    [][(pc["V1"] = "idle" /\ pc'["V1"] # "idle" /\ FirstFailure(tok'["V1"]) = "tenant") =>
          /\ NamedTenant(tok'["V1"]) \notin DOMAIN registry
          /\ pc'["V1"] = "done" /\ result'["V1"] = "TenantNotFound"
          /\ UNCHANGED <<entries, refresh_states, waiters, mutex, fetch_calls, loc>>
          /\ DOMAIN entries' = Tenants /\ DOMAIN refresh_states' = Tenants]_vars

\* a token whose tid is not registered was rejected and nothing was fetched
UnknownTidRejected ==
    /\ RejectedWithoutIO("TenantNotFound")
    /\ tok["V1"].tid = Some(UnknownTenant)
    /\ UnknownTenant \notin DOMAIN refresh_states \cup DOMAIN entries

\* C32 as stated: RetryConfig::new returns a configuration exactly when
\* max_attempts >= 1, multiplier >= 1.0, 0 <= jitter_min <= jitter_max and
\* max_wait > 0, and Err(Initialize) otherwise
RetryConfigAcceptedIffValid ==
    LET a == retry_config.args
        valid == /\ a.max_attempts >= 1
                 /\ ~a.backoff_multiplier.nan /\ a.backoff_multiplier.v >= 10
                 /\ ~a.jitter_min.nan /\ ~a.jitter_max.nan
                 /\ 0 <= a.jitter_min.v /\ a.jitter_min.v <= a.jitter_max.v
                 /\ a.max_wait > 0
    IN retry_config.step = "returned" =>
          retry_config.returned.err = IF valid THEN "ok" ELSE "Initialize"

\* C33: a task that found another task refreshing only subscribes, waits
\* and returns WaitedForRefresh; a fetch is begun only by the task that was
\* just granted the refresh, never by one that waited; the request that
\* waited then looks the key up once more, which ends its call without a
\* fetch, with DecodingKeyNotFound when the key is still missing
WaiterNeverFetches ==
    [][/\ \A p \in Procs :
            pc[p] \in {"m_subscribe", "m_wait"} =>
                \/ pc'[p] \in {"m_subscribe", "m_wait"}
                \/ /\ Leaves(p, "m_wait") /\ loc'[p].ret = "WaitedForRefresh"
                   /\ p \in Callers => pc'[p] = "find2"
                   /\ UNCHANGED <<fetch_calls, entries, refresh_states>>
       /\ fetch_calls' # fetch_calls =>
            \E q \in Procs : Leaves(q, "m_check") /\ pc'[q] = "fetch"
       /\ \A p \in Callers :
            (Leaves(p, "find2") /\ loc[p].ret = "WaitedForRefresh") =>
                /\ pc'[p] = "done"
                /\ UNCHANGED <<fetch_calls, entries, refresh_states>>
                /\ ~IsSome(FindDecodingKey(entries, loc[p].tenant_id, Unwrap(tok[p].kid)))
                      => result'[p] = "DecodingKeyNotFound"]_vars

\* a request waited for a refresh that failed (the only fetch made for the
\* tenant) and is about to look up its key, which is still missing
WaitedForFailedRefresh ==
    \E p \in Callers :
        /\ pc[p] = "find2" /\ loc[p].ret = "WaitedForRefresh"
        /\ fetch_calls[loc[p].tenant_id] = 1 /\ refresh_failed[loc[p].tenant_id] = 1
        /\ ~IsSome(FindDecodingKey(entries, loc[p].tenant_id, Unwrap(tok[p].kid)))

\* C34 as stated: whenever refreshing is true for a tenant it eventually
\* becomes false again
GrantedRefreshResets ==
    \A t \in Tenants :
        refresh_states[t].refreshing ~> ~refresh_states[t].refreshing

\* C35 as stated: while refreshing is set for a tenant its cooldown is not
\* running, so a task that is at the cooldown test while a refresh is in
\* flight is never turned away by it
NoRefreshInCooldown ==
    \A t \in DOMAIN refresh_states :
        refresh_states[t].refreshing =>
            /\ ~CooldownRunning(t)
            /\ \A p \in Procs :
                  (pc[p] = "m_check" /\ loc[p].tenant_id = t) =>
                      ~InCooldown(refresh_states[t], loc[p].now)

\* C36: no task holds the refresh-state mutex and the write lock of the
\* cache table together; a task holding the mutex is inside one of the two
\* critical sections, where it awaits no lock, and a task holding the write
\* lock is merging or cleaning up, where it awaits no lock either; a lookup,
\* which takes the read lock, is made by a task that does not hold the
\* mutex; hence the holder of either lock can always take its next step and
\* release it
LocksNeverNested ==
    \A p \in Procs :
        /\ ~(mutex = p /\ entries_lock = p)
        /\ mutex = p => pc[p] \in {"m_check", "m_finish"}
        /\ entries_lock = p => pc[p] \in {"merge", "cleanup"}
        /\ pc[p] \in {"idle", "find2", "w_lock", "c_lock"} => mutex # p
        /\ pc[p] \in {"m_lock", "m_relock"} => entries_lock # p
        /\ mutex = p => ENABLED (MrCheck(p) \/ MrFinish(p))
        /\ entries_lock = p => ENABLED (Merge(p) \/ Cleanup)

\* one task holds the write lock, another one the mutex, and a third one
\* waits for one of the two
BothLocksHeldByDifferentTasks ==
    \E p, q, w \in Procs :
        /\ entries_lock = p /\ mutex = q /\ p # q
        /\ pc[w] \in {"m_lock", "m_relock", "w_lock", "c_lock", "find2"}

\* C37: no step changes the key material cached under a kid: as long as the
\* kid stays cached its Jwk is the one first stored; the merge of a response
\* that advertises a cached kid, with the same or with other material, sets
\* the last_seen_at of that entry and nothing else; a kid leaves a cache only
\* in the cleanup
MergeKeepsKeyMaterial ==
    [][/\ \A t \in DOMAIN entries : \A k \in DOMAIN entries[t] :
            IF k \in DOMAIN entries'[t]
            THEN entries'[t][k].jwk = entries[t][k].jwk
            ELSE Leaves(BG, "cleanup")
       /\ \A p \in Procs : Leaves(p, "merge") =>
            \A key \in {loc[p].fetched[i] : i \in 1..Len(loc[p].fetched)} :
                key.kid \in DOMAIN entries[loc[p].tenant_id] =>
                    entries'[loc[p].tenant_id][key.kid] =
                        [entries[loc[p].tenant_id][key.kid] EXCEPT !.last_seen_at = loc[p].at]]_vars

\* the endpoint served k1 with other material, the response was merged
\* after time had passed, and k1 is cached with the material it had before
\* and the new last_seen_at
OldMaterialKept ==
    \E p \in Procs :
        /\ pc[p] = "m_relock" /\ loc[p].tenant_id = "T1"
        /\ loc[p].merged = {Jwk("k1", "n2")}
        /\ entries["T1"]["k1"].jwk = Jwk("k1", "n1")
        /\ entries["T1"]["k1"].last_seen_at > 0

\* C38: a verify call whose first lookup finds the key ends in that step
\* with the outcome of the signed verification: the cache table with every
\* last_seen_at, the refresh states, the waiters, both locks and the fetch
\* counters are the same after the call as before it
FirstLookupHitChangesNothing ==
    [][\A p \in Callers :
          LET r == VerifyRoute(crate, tok'[p])
              key == FindDecodingKey(entries, r.tenant_id, r.kid)
          IN (pc[p] = "idle" /\ pc'[p] # "idle" /\ r.err = "ok" /\ IsSome(key)) =>
                /\ pc'[p] = "done"
                /\ result'[p] = DecodeClaims(tok'[p], Unwrap(key),
                                             TenantRegistry[r.tenant_id], now)
                /\ UNCHANGED <<entries, refresh_states, waiters, mutex, entries_lock,
                               fetch_calls, refresh_failed, first_ok, loc>>]_vars

\* a request for a cached kid was served from the cache after the tenant's
\* keys had been refreshed: nothing was fetched for it
ServedFromCacheAfterRefresh ==
    \E p \in Callers :
        /\ pc[p] = "done" /\ result[p] = "Claims"
        /\ Unwrap(tok[p].kid) = "k2"
        /\ fetch_calls["T1"] = 1 /\ IsSome(first_ok["T1"])
        /\ \A q \in Callers \ {p} : pc[q] = "idle"

\* C39: a kid leaves a tenant's cache only in the cleanup step of the
\* background task; once that task has exited it stays exited, and every
\* step of a request, on-demand refreshes and their merges included, leaves
\* every tenant's set of cached kids the same or larger
NoEvictionAfterExit ==
    [][/\ (\E t \in DOMAIN entries :
               t \notin DOMAIN entries' \/ ~(DOMAIN entries[t] \subseteq DOMAIN entries'[t]))
            => Leaves(BG, "cleanup")
       /\ pc[BG] = "exited" =>
            /\ pc'[BG] = "exited"
            /\ \A t \in DOMAIN entries :
                  t \in DOMAIN entries' /\ DOMAIN entries[t] \subseteq DOMAIN entries'[t]]_vars

\* after the background task has exited a request has merged keys on demand
\* while a key past the TTL is still cached
ExpiredKeyOutlivesTask ==
    /\ pc[BG] = "exited"
    /\ pc["V1"] = "m_relock" /\ loc["V1"].merged # {}
    /\ \E t \in DOMAIN entries : \E k \in DOMAIN entries[t] :
          DurationSince(now, entries[t][k].last_seen_at) >= Ttl

====
